---- MODULE Spec2Model ----
(***************************************************************************)
(* Verification model of the SustAInability Navigator backend:             *)
(*   - SiemensXceleratorService (app/services/xcelerator_service.py)       *)
(*   - RAGAgent                 (app/services/rag_agent_service.py)        *)
(*   - DocumentIntelligenceService                                         *)
(*                     (app/services/document_intelligence_service.py)     *)
(*   - DocumentManager          (documents/document_manager.py)            *)
(*   - EnhancedDBOService       (app/services/dbo_service.py)              *)
(*                                                                         *)
(* Conventions.  Python dicts are insertion ordered: a dict is modelled by *)
(* the sequence of its keys plus a function on the keys.  Scores of the    *)
(* multi-factor scorer are kept in tenths (2.0 is 20, 0.8 is 8, -0.2 is    *)
(* -2); relevance and cosine similarities are kept in hundredths.          *)
(***************************************************************************)
EXTENDS Integers, Sequences, FiniteSets, TLC

VARIABLES
    xcelerator_catalog,   \* SiemensXceleratorService.xcelerator_catalog
    nreq,                 \* number of service calls made so far
    last_op,              \* which operation produced the last_* values
    last_profile,         \* user_profile argument of the last call
    last_dbo,             \* dbo_output argument of the last call
    last_suitable,        \* value of _filter_products_by_proficiency
    last_matched,         \* value of _match_requirements_to_products
    last_scored,          \* value of _score_and_rank_recommendations
    last_recs,            \* value returned by the last call
    last_status           \* "ok" or "error" (exception left the call)

xvars == <<xcelerator_catalog, nreq, last_op, last_profile, last_dbo,
           last_suitable, last_matched, last_scored, last_recs, last_status>>

VARIABLES
    scenarios,            \* EnhancedDBOService.scenarios (items in insertion order)
    dbo_loaded,           \* the dbo_service instance has been constructed
    scenarios_file,       \* dbo_scenarios.json as the constructor found it
    lookup,               \* the last scenario request and its HTTP outcome
    nlookup               \* scenario requests served so far

dvars == <<scenarios, dbo_loaded, scenarios_file, lookup, nlookup>>

VARIABLES
    dbo_embeddings,       \* RAGAgent.dbo_embeddings (items in insertion order)
    product_embeddings,   \* RAGAgent.product_embeddings
    rag_ready             \* the rag_agent instance has been constructed

rvars == <<dbo_embeddings, product_embeddings, rag_ready>>

VARIABLES
    document_chunks,      \* DocumentIntelligenceService.document_chunks
    embeddings_matrix,    \* DocumentIntelligenceService.embeddings_matrix
    ninit                 \* number of initialize() calls made so far

ivars == <<document_chunks, embeddings_matrix, ninit>>

VARIABLES
    manager_documents,    \* documents.DocumentManager.documents
    manager_chunks,       \* its document_chunks with their document_embeddings
    nadd                  \* number of add_document calls made so far

mvars == <<manager_documents, manager_chunks, nadd>>

VARIABLES
    conversation_memory,  \* RAGAgent.conversation_memory: session_id -> entries
    response_cache,       \* RAGAgent.response_cache: cache key -> entry
    now,                  \* datetime.now().timestamp(), in seconds
    nchat,                \* number of process_message calls made so far
    nupdate,              \* number of direct _update_conversation_memory calls
    chat                  \* the last process_message call and what it returned

cvars == <<conversation_memory, response_cache, now, nchat, nupdate, chat>>

VARIABLES
    search                \* the last search call: arguments and outcome

svars == <<search>>

VARIABLES
    chunker               \* one run of vector_db DocumentManager._chunk_text

kvars == <<chunker>>

----------------------------------------------------------------------------
(* Bounds *)

MaxRequests == 2

\* largest top_k passed to a search
MaxTopK == 3

\* calls of DocumentIntelligenceService.initialize
MaxInitializeCalls == 1

\* calls of DocumentManager.add_document
MaxAddCalls == 2

\* calls of RAGAgent.process_message
MaxChats == 2

\* direct calls of RAGAgent._update_conversation_memory
MaxUpdates == 11

\* the clock advances in steps of TickSeconds up to MaxClock
TickSeconds == 3600

MaxClock == 3600

\* requests to the scenario endpoints
MaxLookups == 2

\* longest text handed to _chunk_text, in characters
MaxTextLen == 4

\* largest chunk_size a DocumentManager is built with, in characters
MaxChunkSize == 3

\* iterations of the chunking loop followed for one text
MaxIterations == 6

----------------------------------------------------------------------------
(* Generic helpers for Python lists *)

InSeq(x, s) == \E i \in 1..Len(s) : s[i] = x

SeqToSet(s) == { s[i] : i \in 1..Len(s) }

AppendIf(s, cond, x) == IF cond THEN Append(s, x) ELSE s

MinOf(a, b) == IF a <= b THEN a ELSE b

\* s[:k] for k >= 0
Take(s, k) == SubSeq(s, 1, MinOf(k, Len(s)))

\* s[-k:] for k > 0
LastN(s, k) == SubSeq(s, Len(s) - MinOf(k, Len(s)) + 1, Len(s))

IndexOf(x, s) == CHOOSE i \in 1..Len(s) : s[i] = x

----------------------------------------------------------------------------
(* app/models/user_profile.py *)

ProficiencyLevel == {"beginner", "intermediate", "advanced", "expert"}

ComplianceImportance == {"low", "medium", "high", "critical"}

\* proficiency_levels list of _calculate_proficiency_bonus; .index(level)
proficiency_levels == <<"beginner", "intermediate", "advanced", "expert">>

LevelIndex(level) == IndexOf(level, proficiency_levels)

----------------------------------------------------------------------------
(* SiemensXceleratorService._load_xcelerator_catalog *)

CatalogOrder ==
    <<"desigo_cc", "mindsphere", "sigreen", "sicam_gridedge",
      "simatic_pcs7", "building_x", "siemens_financial_services">>

ProductIds == SeqToSet(CatalogOrder)

LoadXceleratorCatalog ==
    [product_id \in ProductIds |->
       CASE product_id = "desigo_cc" ->
              [name |-> "Desigo CC",
               implementation_complexity |-> "Medium",
               typical_timeline |-> "3-6 months",
               proficiency_requirements |->
                   [sustainability |-> "intermediate", technological |-> "intermediate"],
               financing_available |-> TRUE,
               siemens_support |-> <<"Implementation services", "Training", "24/7 support">>]
         [] product_id = "mindsphere" ->
              [name |-> "MindSphere",
               implementation_complexity |-> "High",
               typical_timeline |-> "6-12 months",
               proficiency_requirements |->
                   [sustainability |-> "intermediate", technological |-> "advanced"],
               financing_available |-> TRUE,
               siemens_support |-> <<"Digital transformation consulting",
                                     "Technical implementation", "Ongoing optimization">>]
         [] product_id = "sigreen" ->
              [name |-> "SiGREEN",
               implementation_complexity |-> "Low to Medium",
               typical_timeline |-> "2-4 months",
               proficiency_requirements |->
                   [sustainability |-> "beginner", technological |-> "beginner"],
               financing_available |-> TRUE,
               siemens_support |-> <<"Implementation guidance",
                                     "Regulatory compliance support", "Training programs">>]
         [] product_id = "sicam_gridedge" ->
              [name |-> "SICAM GridEdge",
               implementation_complexity |-> "High",
               typical_timeline |-> "4-8 months",
               proficiency_requirements |->
                   [sustainability |-> "intermediate", technological |-> "advanced"],
               financing_available |-> TRUE,
               siemens_support |-> <<"Grid integration consulting",
                                     "Technical implementation", "Maintenance services">>]
         [] product_id = "simatic_pcs7" ->
              [name |-> "SIMATIC PCS 7",
               implementation_complexity |-> "High",
               typical_timeline |-> "8-18 months",
               proficiency_requirements |->
                   [sustainability |-> "advanced", technological |-> "expert"],
               financing_available |-> TRUE,
               siemens_support |-> <<"Process engineering",
                                     "Implementation services", "Lifecycle support">>]
         [] product_id = "building_x" ->
              [name |-> "Building X",
               implementation_complexity |-> "Medium",
               typical_timeline |-> "2-6 months",
               proficiency_requirements |->
                   [sustainability |-> "beginner", technological |-> "intermediate"],
               financing_available |-> TRUE,
               siemens_support |-> <<"Cloud implementation",
                                     "Analytics setup", "Optimization consulting">>]
         [] OTHER ->
              [name |-> "Siemens Financial Services",
               implementation_complexity |-> "Low",
               typical_timeline |-> "2-8 weeks",
               proficiency_requirements |->
                   [sustainability |-> "beginner", technological |-> "beginner"],
               financing_available |-> TRUE,
               siemens_support |-> <<"Financing consultation",
                                     "Custom payment plans", "Risk assessment">>]]

(* SiemensXceleratorService._build_proficiency_matrix *)

recommended_products ==
    [level \in ProficiencyLevel |->
       CASE level = "beginner"     -> <<"sigreen", "building_x", "siemens_financial_services">>
         [] level = "intermediate" -> <<"desigo_cc", "mindsphere", "sicam_gridedge">>
         [] level = "advanced"     -> <<"simatic_pcs7", "mindsphere", "sicam_gridedge">>
         [] OTHER                  -> <<"simatic_pcs7", "mindsphere", "custom_solutions">>]

complexity_filter ==
    [level \in ProficiencyLevel |->
       CASE level = "beginner"     -> <<"Low", "Low to Medium">>
         [] level = "intermediate" -> <<"Low to Medium", "Medium">>
         [] level = "advanced"     -> <<"Medium", "High">>
         [] OTHER                  -> <<"High", "Custom">>]

----------------------------------------------------------------------------
(* Text.  A text is a sequence of word tokens; `t in text.lower()` holds   *)
(* when t is a substring of the lower-cased form of one of its tokens.     *)

Lower(token) ==
    CASE token = "Energy"   -> "energy"
      [] token = "Building" -> "building"
      [] token = "Carbon"   -> "carbon"
      [] token = "Energy_Savings" -> "energy_savings"
      [] OTHER -> token

\* the trigger substrings that occur in a lower-case token
SubstringsOf(lowered) ==
    CASE lowered \in {"energy", "water", "building", "waste", "supply", "logistics",
                      "manufacturing", "iot", "sensors", "monitoring", "analytics",
                      "data", "intelligence", "automation", "control", "smart",
                      "tracking", "reporting", "carbon", "emission"} -> {lowered}
      [] lowered = "energy_savings"            -> {"energy"}
      [] lowered = "energy_cost_reduction"     -> {"energy"}
      [] lowered = "carbon_emission_reduction" -> {"carbon", "emission"}
      [] lowered = "water_savings"             -> {"water"}
      [] lowered = "waste_reduction"           -> {"waste"}
      [] OTHER -> {}

\* trigger in " ".join(text).lower()
Occurs(trigger, text) ==
    \E i \in 1..Len(text) : trigger \in SubstringsOf(Lower(text[i]))

----------------------------------------------------------------------------
(* SiemensXceleratorService._extract_requirements_from_dbo                 *)
(* dbo_output = [scenario_text, recommended_actions, benefit_keys, payback] *)
(* benefit_keys are the keys of estimated_benefits in insertion order and  *)
(* payback is estimated_benefits["payback_period_years"] in tenths of a    *)
(* year (read only when the key is present).                               *)

HasPayback(dbo_output) == InSeq("payback_period_years", dbo_output.benefit_keys)

PrimaryFocus(scenario_text) ==
    LET f1 == AppendIf(<<>>, Occurs("energy", scenario_text), "energy_management")
        f2 == AppendIf(f1, Occurs("water", scenario_text), "resource_management")
        f3 == AppendIf(f2, Occurs("building", scenario_text), "building_optimization")
        f4 == AppendIf(f3, Occurs("waste", scenario_text), "waste_management")
        f5 == AppendIf(f4, Occurs("supply", scenario_text)
                           \/ Occurs("logistics", scenario_text), "supply_chain")
    IN  AppendIf(f5, Occurs("manufacturing", scenario_text), "industrial_processes")

TechnicalCapabilities(actions_text) ==
    LET any(words) == \E w \in words : Occurs(w, actions_text)
        c1 == AppendIf(<<>>, any({"iot", "sensors", "monitoring"}), "iot_monitoring")
        c2 == AppendIf(c1, any({"analytics", "data", "intelligence"}), "data_analytics")
        c3 == AppendIf(c2, any({"automation", "control", "smart"}), "automation_control")
    IN  AppendIf(c3, any({"tracking", "reporting", "carbon"}), "sustainability_reporting")

\* the goals appended for one key of estimated_benefits
GoalsOfMetric(metric) ==
    LET m  == <<metric>>
        g1 == AppendIf(<<>>, Occurs("energy", m), "energy_efficiency")
        g2 == AppendIf(g1, Occurs("carbon", m) \/ Occurs("emission", m), "carbon_reduction")
        g3 == AppendIf(g2, Occurs("water", m), "water_conservation")
    IN  AppendIf(g3, Occurs("waste", m), "waste_reduction")

RECURSIVE SustainabilityGoals(_)
SustainabilityGoals(benefit_keys) ==
    IF benefit_keys = <<>> THEN <<>>
    ELSE GoalsOfMetric(Head(benefit_keys)) \o SustainabilityGoals(Tail(benefit_keys))

\* implementation_constraints: {} when the payback key is missing
Urgency(dbo_output) ==
    IF ~HasPayback(dbo_output) THEN "absent"
    ELSE IF dbo_output.payback <= 20 THEN "high"
    ELSE IF dbo_output.payback <= 40 THEN "medium"
    ELSE "low"

ExtractRequirementsFromDbo(dbo_output) ==
    [primary_focus          |-> PrimaryFocus(dbo_output.scenario_text),
     technical_capabilities |-> TechnicalCapabilities(dbo_output.recommended_actions),
     sustainability_goals   |-> SustainabilityGoals(dbo_output.benefit_keys),
     urgency                |-> Urgency(dbo_output)]

----------------------------------------------------------------------------
(* SiemensXceleratorService._filter_products_by_proficiency *)

\* variant: the financing product gets no exemption from the sustainability set
FilterWithoutFinancingExemption(catalog, user_profile) ==
    LET sustainability_products ==
            recommended_products[user_profile.sustainability_proficiency]
        suitable_complexity ==
            complexity_filter[user_profile.technological_proficiency]
        keep(product_id) ==
            /\ InSeq(product_id, sustainability_products)
            /\ \/ InSeq(catalog[product_id].implementation_complexity, suitable_complexity)
               \/ catalog[product_id].implementation_complexity = "Low"
    IN  SelectSeq(CatalogOrder, keep)

FilterProductsByProficiency(catalog, user_profile) ==
    LET sustainability_products ==
            recommended_products[user_profile.sustainability_proficiency]
        suitable_complexity ==
            complexity_filter[user_profile.technological_proficiency]
        keep(product_id) ==
            /\ \/ InSeq(product_id, sustainability_products)
               \/ "siemens_financial_services" = product_id
            /\ \/ InSeq(catalog[product_id].implementation_complexity, suitable_complexity)
               \/ catalog[product_id].implementation_complexity = "Low"
    IN  SelectSeq(CatalogOrder, keep)

----------------------------------------------------------------------------
(* SiemensXceleratorService._match_requirements_to_products *)

product_capabilities(requirement) ==
    CASE requirement = "energy_management"     -> {"desigo_cc", "sicam_gridedge", "building_x", "simatic_pcs7"}
      [] requirement = "resource_management"   -> {"simatic_pcs7", "building_x", "mindsphere"}
      [] requirement = "building_optimization" -> {"desigo_cc", "building_x"}
      [] requirement = "waste_management"      -> {"simatic_pcs7", "mindsphere"}
      [] requirement = "supply_chain"          -> {"mindsphere", "sigreen"}
      [] requirement = "industrial_processes"  -> {"simatic_pcs7", "mindsphere"}
      [] requirement = "iot_monitoring"        -> {"mindsphere", "sicam_gridedge", "desigo_cc"}
      [] requirement = "data_analytics"        -> {"mindsphere", "building_x", "sigreen"}
      [] requirement = "automation_control"    -> {"simatic_pcs7", "desigo_cc", "sicam_gridedge"}
      [] requirement = "sustainability_reporting" -> {"sigreen", "building_x"}
      [] requirement = "energy_efficiency"     -> {"desigo_cc", "building_x", "sicam_gridedge"}
      [] requirement = "carbon_reduction"      -> {"sigreen", "building_x", "desigo_cc"}
      [] requirement = "water_conservation"    -> {"simatic_pcs7", "building_x"}
      [] requirement = "waste_reduction"       -> {"simatic_pcs7", "mindsphere"}
      [] OTHER -> {}

\* one `for x in requirements[...]` loop: weight for every listed entry served
RECURSIVE MatchLoop(_, _, _)
MatchLoop(product_id, entries, weight) ==
    IF entries = <<>> THEN 0
    ELSE (IF product_id \in product_capabilities(Head(entries)) THEN weight ELSE 0)
         + MatchLoop(product_id, Tail(entries), weight)

RequirementScore(product_id, requirements) ==
    MatchLoop(product_id, requirements.primary_focus, 20)
    + MatchLoop(product_id, requirements.technical_capabilities, 15)
    + MatchLoop(product_id, requirements.sustainability_goals, 10)

\* variant: every catalog product is scored, eligible or not
RECURSIVE MatchEveryProduct(_, _)
MatchEveryProduct(requirements, product_ids) ==
    IF product_ids = <<>> THEN <<>>
    ELSE LET product_id == Head(product_ids)
             rest == MatchEveryProduct(requirements, Tail(product_ids))
             score == RequirementScore(product_id, requirements)
         IN  IF product_id = "siemens_financial_services"
             THEN <<[product_id |-> product_id, score |-> 8]>> \o rest
             ELSE IF score > 0
             THEN <<[product_id |-> product_id, score |-> score]>> \o rest
             ELSE rest

MatchIgnoringEligibility(requirements, suitable_products) ==
    MatchEveryProduct(requirements, CatalogOrder)

\* variant: a product that serves no requirement is kept with score 0
RECURSIVE MatchKeepingZeroScores(_, _)
MatchKeepingZeroScores(requirements, suitable_products) ==
    IF suitable_products = <<>> THEN <<>>
    ELSE LET product_id == Head(suitable_products)
             rest == MatchKeepingZeroScores(requirements, Tail(suitable_products))
             score == RequirementScore(product_id, requirements)
         IN  IF product_id = "siemens_financial_services"
             THEN <<[product_id |-> product_id, score |-> 8]>> \o rest
             ELSE <<[product_id |-> product_id, score |-> score]>> \o rest

\* matched_products as the list of its items, in insertion order
RECURSIVE MatchRequirementsToProducts(_, _)
MatchRequirementsToProducts(requirements, suitable_products) ==
    IF suitable_products = <<>> THEN <<>>
    ELSE LET product_id == Head(suitable_products)
             rest == MatchRequirementsToProducts(requirements, Tail(suitable_products))
             score == RequirementScore(product_id, requirements)
         IN  IF product_id = "siemens_financial_services"
             THEN <<[product_id |-> product_id, score |-> 8]>> \o rest
             ELSE IF score > 0
             THEN <<[product_id |-> product_id, score |-> score]>> \o rest
             ELSE rest

----------------------------------------------------------------------------
(* SiemensXceleratorService._calculate_proficiency_bonus *)

\* variant: a dimension earns +0.5 only when the levels are equal
ProficiencyBonusOnEqualLevel(catalog, product_id, user_profile) ==
    LET required == catalog[product_id].proficiency_requirements
        sustainability_part ==
            IF user_profile.sustainability_proficiency = required.sustainability
            THEN 5 ELSE -2
        technological_part ==
            IF user_profile.technological_proficiency = required.technological
            THEN 5 ELSE -2
    IN  sustainability_part + technological_part

CalculateProficiencyBonus(catalog, product_id, user_profile) ==
    LET required == catalog[product_id].proficiency_requirements
        sustainability_part ==
            IF LevelIndex(user_profile.sustainability_proficiency)
                 >= LevelIndex(required.sustainability) THEN 5 ELSE -2
        technological_part ==
            IF LevelIndex(user_profile.technological_proficiency)
                 >= LevelIndex(required.technological) THEN 5 ELSE -2
    IN  sustainability_part + technological_part

(* SiemensXceleratorService._calculate_compliance_bonus *)

compliance_products == {"sigreen", "building_x", "desigo_cc"}

CalculateComplianceBonus(product_id, user_profile) ==
    IF user_profile.regulatory_compliance_importance = "critical"
       /\ product_id \in compliance_products THEN 10
    ELSE IF user_profile.regulatory_compliance_importance = "high"
       /\ product_id \in compliance_products THEN 5
    ELSE 0

(* SiemensXceleratorService._calculate_timeline_bonus *)

\* the "a-b" range a catalog timeline string starts with; for the catalog's
\* timelines `pattern in product_timeline` holds iff pattern is that range
TimelineRange(product_timeline) ==
    CASE product_timeline = "3-6 months"  -> "3-6"
      [] product_timeline = "6-12 months" -> "6-12"
      [] product_timeline = "2-4 months"  -> "2-4"
      [] product_timeline = "4-8 months"  -> "4-8"
      [] product_timeline = "8-18 months" -> "8-18"
      [] product_timeline = "2-6 months"  -> "2-6"
      [] product_timeline = "2-8 weeks"   -> "2-8"
      [] OTHER -> ""

ProductMonths(product_timeline) ==
    LET range == TimelineRange(product_timeline)
    IN  IF range \in {"2-4", "2-6"} THEN 3
        ELSE IF range \in {"3-6", "4-8"} THEN 5
        ELSE IF range \in {"6-12", "8-18"} THEN 10
        ELSE 6

\* variant: the long-horizon bonus also for a timeline of exactly 6 months
\* and a payback of exactly 3 years
TimelineBonusInclusive(catalog, product_id, dbo_output) ==
    LET product_months == ProductMonths(catalog[product_id].typical_timeline)
        payback == IF HasPayback(dbo_output) THEN dbo_output.payback ELSE 30
    IN  IF payback <= 20 /\ product_months <= 6 THEN 5
        ELSE IF payback >= 30 /\ product_months >= 6 THEN 3
        ELSE 0

CalculateTimelineBonus(catalog, product_id, dbo_output) ==
    LET product_months == ProductMonths(catalog[product_id].typical_timeline)
        payback == IF HasPayback(dbo_output) THEN dbo_output.payback ELSE 30
    IN  IF payback <= 20 /\ product_months <= 6 THEN 5
        ELSE IF payback > 30 /\ product_months > 6 THEN 3
        ELSE 0

----------------------------------------------------------------------------
(* SiemensXceleratorService._score_and_rank_recommendations *)

FinalScore(catalog, match, dbo_output, user_profile) ==
    match.score
    + CalculateProficiencyBonus(catalog, match.product_id, user_profile)
    + CalculateComplianceBonus(match.product_id, user_profile)
    + CalculateTimelineBonus(catalog, match.product_id, dbo_output)

\* variant: an entry is placed in front of earlier entries with an equal key
RECURSIVE InsertBeforeEqual(_, _)
InsertBeforeEqual(sorted, entry) ==
    IF sorted = <<>> THEN <<entry>>
    ELSE IF Head(sorted).final_score > entry.final_score
         THEN <<Head(sorted)>> \o InsertBeforeEqual(Tail(sorted), entry)
         ELSE <<entry>> \o sorted

\* list.sort(key=final_score, reverse=True): stable, so an entry is placed
\* behind every earlier entry whose key is not smaller
RECURSIVE InsertDescending(_, _)
InsertDescending(sorted, entry) ==
    IF sorted = <<>> THEN <<entry>>
    ELSE IF Head(sorted).final_score >= entry.final_score
         THEN <<Head(sorted)>> \o InsertDescending(Tail(sorted), entry)
         ELSE <<entry>> \o sorted

RECURSIVE SortDescending(_, _)
SortDescending(sorted, entries) ==
    IF entries = <<>> THEN sorted
    ELSE SortDescending(InsertDescending(sorted, Head(entries)), Tail(entries))

ScoreAndRankRecommendations(catalog, matched_products, dbo_output, user_profile) ==
    LET scored_products ==
            [i \in 1..Len(matched_products) |->
               [product_id  |-> matched_products[i].product_id,
                final_score |-> FinalScore(catalog, matched_products[i],
                                           dbo_output, user_profile),
                score_breakdown |->
                   [base_score |-> matched_products[i].score,
                    proficiency_bonus |->
                       CalculateProficiencyBonus(catalog,
                           matched_products[i].product_id, user_profile),
                    compliance_bonus |->
                       CalculateComplianceBonus(matched_products[i].product_id,
                                                user_profile),
                    timeline_bonus |->
                       CalculateTimelineBonus(catalog,
                           matched_products[i].product_id, dbo_output)]]]
    IN  SortDescending(<<>>, scored_products)

----------------------------------------------------------------------------
(* SiemensXceleratorService._generate_implementation_support               *)
(* base_support is the catalog's own siemens_support list: extend() grows  *)
(* the list held by the catalog.  Returns the new list and list(set(..)),  *)
(* whose order is unspecified and is modelled as a set.                    *)

SupportExtension(user_profile) ==
    (IF user_profile.sustainability_proficiency = "beginner"
       THEN <<"Sustainability strategy consulting", "Change management support">>
       ELSE <<>>)
    \o (IF user_profile.technological_proficiency = "beginner"
       THEN <<"Comprehensive user training", "Technical helpdesk support">>
       ELSE <<>>)
    \o (IF user_profile.regulatory_compliance_importance \in {"high", "critical"}
       THEN <<"Regulatory compliance consulting", "Audit support services">>
       ELSE <<>>)

GenerateImplementationSupport(catalog, product_id, user_profile) ==
    LET base_support == catalog[product_id].siemens_support \o SupportExtension(user_profile)
    IN  [catalog |-> [catalog EXCEPT ![product_id].siemens_support = base_support],
         support |-> SeqToSet(base_support)]

----------------------------------------------------------------------------
(* SiemensXceleratorService._generate_detailed_recommendations             *)
(* XceleratorRecommendation validates 0 <= relevance_score <= 1; a         *)
(* rejected record raises out of the loop, after the support list of that  *)
(* product has been extended.                                              *)

\* variant: the score is passed on without the division by 10 and the cap
RelevanceScoreUnnormalised(final_score) == final_score * 10

\* min(score / 10.0, 1.0), in hundredths (final_score is in tenths)
RelevanceScore(final_score) == MinOf(final_score, 100)

\* an Optional field of the profile that the request left out is None
ProfileField(user_profile, field) ==
    IF field \in DOMAIN user_profile THEN user_profile[field] ELSE "None"

\* _estimate_investment_for_user: the size category of company_size
SizeCategory(company_size) ==
    LET size == IF company_size \in {"None", ""} THEN "medium" ELSE company_size
    IN  CASE size \in {"Small (10-50 employees)", "small", "10-50"} -> "small"
          [] size \in {"Large enterprise", "large", "500+ employees"} -> "large"
          [] OTHER -> "medium"

base_investments(product_id) ==
    CASE product_id = "desigo_cc" ->
           [small |-> "$15K-50K", medium |-> "$50K-150K", large |-> "$150K-500K"]
      [] product_id = "mindsphere" ->
           [small |-> "$25K-75K", medium |-> "$75K-200K", large |-> "$200K-600K"]
      [] product_id = "sigreen" ->
           [small |-> "$5K-15K", medium |-> "$15K-40K", large |-> "$40K-100K"]
      [] product_id = "sicam_gridedge" ->
           [small |-> "$30K-80K", medium |-> "$80K-250K", large |-> "$250K-750K"]
      [] product_id = "building_x" ->
           [small |-> "$10K-30K", medium |-> "$30K-80K", large |-> "$80K-200K"]
      [] product_id = "simatic_pcs7" ->
           [small |-> "$100K-300K", medium |-> "$300K-800K", large |-> "$800K-2M"]
      [] product_id = "siemens_financial_services" ->
           [small |-> "Financing available", medium |-> "Financing available",
            large |-> "Financing available"]
      [] OTHER -> <<>>

\* base_investments.get(product_id, {}).get(size_category, "Contact for pricing")
EstimateInvestmentForUser(product_id, user_profile) ==
    LET size_category == SizeCategory(ProfileField(user_profile, "company_size"))
        by_size == base_investments(product_id)
    IN  IF size_category \in DOMAIN by_size THEN by_size[size_category]
        ELSE "Contact for pricing"

\* roi_estimates.get(product_id, "18-36 months typical")
EstimateRoiTimeline(product_id) ==
    CASE product_id = "desigo_cc"      -> "12-24 months (15-30% energy savings)"
      [] product_id = "mindsphere"     -> "18-36 months (20-40% productivity improvement)"
      [] product_id = "sigreen"        -> "6-12 months (60% reporting time savings)"
      [] product_id = "sicam_gridedge" -> "24-48 months (20-40% energy cost savings)"
      [] product_id = "building_x"     -> "12-18 months (20-40% energy savings)"
      [] product_id = "simatic_pcs7"   -> "24-60 months (15-30% efficiency gains)"
      [] product_id = "siemens_financial_services" -> "Immediate cash flow benefits"
      [] OTHER -> "18-36 months typical"

GetFinancingOptions(product_info) ==
    <<"Siemens Financial Services leasing", "Equipment financing", "Technology rental">>
    \o (IF product_info.financing_available
        THEN <<"Performance-based financing", "Green financing options",
               "Flexible payment terms", "End-to-end solution financing">>
        ELSE <<>>)

\* _generate_proficiency_guidance: the two guidance dicts are indexed
\* without a default, the two adapt helpers use .get with a default
GenerateProficiencyGuidance(user_profile) ==
    [sustainability_approach |->
        CASE user_profile.sustainability_proficiency = "beginner" ->
               "Comprehensive training and guided implementation recommended"
          [] user_profile.sustainability_proficiency = "intermediate" ->
               "Moderate support with focused training on key features"
          [] user_profile.sustainability_proficiency = "advanced" ->
               "Technical consultation and advanced feature training"
          [] user_profile.sustainability_proficiency = "expert" ->
               "Strategic partnership for optimization and innovation"
          [] OTHER -> "KeyError",
     technological_approach |->
        CASE user_profile.technological_proficiency = "beginner" ->
               "Full implementation services with extensive user training"
          [] user_profile.technological_proficiency = "intermediate" ->
               "Implementation support with technical training"
          [] user_profile.technological_proficiency = "advanced" ->
               "Technical consulting and optimization guidance"
          [] user_profile.technological_proficiency = "expert" ->
               "Collaborative development and advanced customization"
          [] OTHER -> "KeyError",
     communication_style |->
        LET style == ProfileField(user_profile, "communication_style")
        IN  IF style \in {"technical", "business_focused", "simple_explanations"}
            THEN style ELSE "comprehensive",
     compliance_focus |->
        IF user_profile.regulatory_compliance_importance
              \in {"low", "medium", "high", "critical"}
        THEN user_profile.regulatory_compliance_importance ELSE "medium"]

RECURSIVE DetailLoop(_, _, _, _)
DetailLoop(catalog, products, user_profile, recommendations) ==
    IF products = <<>>
    THEN [status |-> "ok", recommendations |-> recommendations, catalog |-> catalog]
    ELSE LET product_data == Head(products)
             support == GenerateImplementationSupport(catalog, product_data.product_id,
                                                      user_profile)
             relevance_score == RelevanceScore(product_data.final_score)
             proficiency_match == GenerateProficiencyGuidance(user_profile)
         IN  IF \/ relevance_score < 0
                \/ relevance_score > 100
                \/ "KeyError" \in {proficiency_match.sustainability_approach,
                                    proficiency_match.technological_approach}
             THEN [status |-> "error", recommendations |-> <<>>,
                   catalog |-> support.catalog]
             ELSE DetailLoop(support.catalog, Tail(products), user_profile,
                     Append(recommendations,
                        [product_name |-> catalog[product_data.product_id].name,
                         relevance_score |-> relevance_score,
                         estimated_investment |->
                            EstimateInvestmentForUser(product_data.product_id,
                                                      user_profile),
                         expected_roi_timeline |->
                            EstimateRoiTimeline(product_data.product_id),
                         financing_options |->
                            GetFinancingOptions(catalog[product_data.product_id]),
                         proficiency_match |-> proficiency_match,
                         implementation_support |-> support.support]))

GenerateDetailedRecommendations(catalog, scored_products, user_profile) ==
    DetailLoop(catalog, Take(scored_products, 5), user_profile, <<>>)

----------------------------------------------------------------------------
(* SiemensXceleratorService.analyze_dbo_output_and_recommend *)

AnalyzeDboOutputAndRecommend(catalog, dbo_output, user_profile) ==
    LET requirements == ExtractRequirementsFromDbo(dbo_output)
        suitable_products == FilterProductsByProficiency(catalog, user_profile)
        matched_products == MatchRequirementsToProducts(requirements, suitable_products)
        scored_recommendations ==
            ScoreAndRankRecommendations(catalog, matched_products, dbo_output, user_profile)
        final == GenerateDetailedRecommendations(catalog, scored_recommendations,
                                                 user_profile)
    IN  [suitable |-> suitable_products,
         matched  |-> matched_products,
         scored   |-> scored_recommendations,
         status   |-> final.status,
         recommendations |-> final.recommendations,
         catalog  |-> final.catalog]

----------------------------------------------------------------------------
(* Inputs of the recommendation service *)

UserProfiles ==
    [sustainability_proficiency : ProficiencyLevel,
     technological_proficiency : ProficiencyLevel,
     regulatory_compliance_importance : ComplianceImportance]

DboOutputs ==
    { [scenario_text |-> <<"Energy", "Building">>,
       recommended_actions |-> <<"sensors", "analytics">>,
       benefit_keys |-> <<"energy_savings", "carbon_emission_reduction",
                          "payback_period_years">>,
       payback |-> 20],
      [scenario_text |-> <<"manufacturing", "waste", "water">>,
       recommended_actions |-> <<"control">>,
       benefit_keys |-> <<"waste_reduction", "water_savings", "payback_period_years">>,
       payback |-> 45],
      [scenario_text |-> <<"supply", "building">>,
       recommended_actions |-> <<>>,
       benefit_keys |-> <<"payback_period_years">>,
       payback |-> 25],
      [scenario_text |-> <<"energy">>,
       recommended_actions |-> <<"Carbon", "tracking">>,
       benefit_keys |-> <<"Energy_Savings", "energy_cost_reduction",
                          "payback_period_years">>,
       payback |-> 30],
      [scenario_text |-> <<"logistics">>,
       recommended_actions |-> <<"energy", "monitoring">>,
       benefit_keys |-> <<"payback_period_years", "water_savings">>,
       payback |-> 35],
      [scenario_text |-> <<>>,
       recommended_actions |-> <<>>,
       benefit_keys |-> <<>>,
       payback |-> 0] }

\* the scenario outputs sent to analyze_dbo_output_and_recommend
RecommendDbos == { d \in DboOutputs : d.payback \in {20, 25, 45} }

NoProfile ==
    [sustainability_proficiency |-> "none",
     technological_proficiency |-> "none",
     regulatory_compliance_importance |-> "none"]

NoDbo ==
    [scenario_text |-> <<>>, recommended_actions |-> <<>>,
     benefit_keys |-> <<>>, payback |-> 0]

\* matched_products dicts handed to the ranking step on its own: any subset
\* of the catalog in catalog order, each entry with one of two base scores
\* (the financing product with its fixed 0.8)
RankBaseScores == {10, 20}

RECURSIVE MatchedInputsOver(_)
MatchedInputsOver(product_ids) ==
    IF product_ids = <<>> THEN {<<>>}
    ELSE LET rest == MatchedInputsOver(Tail(product_ids))
             scores == IF Head(product_ids) = "siemens_financial_services"
                       THEN {8} ELSE RankBaseScores
         IN  rest \cup { <<[product_id |-> Head(product_ids), score |-> sc]>> \o r :
                           sc \in scores, r \in rest }

RankProfiles ==
    { p \in UserProfiles :
        /\ p.sustainability_proficiency = p.technological_proficiency
        /\ p.sustainability_proficiency \in {"beginner", "advanced"}
        /\ p.regulatory_compliance_importance \in {"low", "high"} }

----------------------------------------------------------------------------
(* Embedding provider.  embeddings.create(input=text) either raises or     *)
(* returns the vector of the text; vectors are named 1..3 and their cosine *)
(* similarities are kept in hundredths.  NoEmbedding stands for the value  *)
(* stored when the provider failed: [] in RAGAgent, np.zeros(1536) in      *)
(* DocumentIntelligenceService; both have similarity 0 to everything.      *)

NoEmbedding == 0

Vectors == 1..3

EmbedVector(text) ==
    CASE text \in {"Desigo CC", "SICAM GridEdge", "Building X",
                   "Energy Optimization", "energy-optimization",
                   "Digital Business Optimizer (DBO)", "What is DBO?",
                   "what is dbo"} -> 1
      [] text \in {"MindSphere", "SIMATIC PCS 7", "Water Usage Reduction",
                   "Waste Heat Recovery", "SiGREEN", "Siemens Xcelerator",
                   "carbon footprint"} -> 2
      [] OTHER -> 3

\* np.dot(a, b) / (norm(a) * norm(b)) of two provider vectors
VectorCosine(a, b) ==
    IF a = b THEN 100
    ELSE IF {a, b} = {1, 2} THEN 70
    ELSE IF {a, b} = {1, 3} THEN 69
    ELSE 90

QueryTexts == {"what is dbo", "carbon footprint", "energy efficiency"}

\* one embeddings.create call: the vector, or NoEmbedding when it raised
ProviderResult(text, provider_ok) ==
    IF provider_ok THEN EmbedVector(text) ELSE NoEmbedding

----------------------------------------------------------------------------
(* EnhancedDBOService._load_and_enhance_scenarios                          *)
(* dbo_scenarios.json is data outside the sources: a missing file or one   *)
(* of a few record lists.                                                  *)

ScenarioRecord(title, description, recommendations, payback) ==
    [scenario |-> title, description |-> description,
     recommendations |-> recommendations, payback |-> payback]

ScenarioFiles ==
    { <<>>,
      << ScenarioRecord("Energy Optimization", <<"Energy", "manufacturing">>,
                        <<"sensors", "lighting">>, 25) >>,
      << ScenarioRecord("Energy Optimization", <<"Energy", "manufacturing">>,
                        <<"sensors", "lighting">>, 25),
         ScenarioRecord("Water Usage Reduction", <<"water">>,
                        <<"meters">>, 30),
         ScenarioRecord("Smart Building Retrofitting", <<"building", "energy">>,
                        <<"sensors", "automation">>, 20),
         ScenarioRecord("Waste Heat Recovery", <<"waste", "manufacturing">>,
                        <<"heat">>, 45) >>,
      << ScenarioRecord("Energy Optimization", <<"Energy", "manufacturing">>,
                        <<"sensors", "lighting">>, 25),
         ScenarioRecord("energy-optimization", <<"logistics">>,
                        <<"routes">>, 40) >> }

\* scenario["scenario"].lower().replace(" ", "_").replace("-", "_")
ScenarioId(title) ==
    CASE title = "Energy Optimization"         -> "energy_optimization"
      [] title = "energy-optimization"         -> "energy_optimization"
      [] title = "Water Usage Reduction"       -> "water_usage_reduction"
      [] title = "Smart Building Retrofitting" -> "smart_building_retrofitting"
      [] title = "Waste Heat Recovery"         -> "waste_heat_recovery"
      [] OTHER -> title

EnhanceScenario(record) ==
    [id |-> ScenarioId(record.scenario),
     title |-> record.scenario,
     description |-> record.description,
     implementation_steps |-> record.recommendations,
     payback_period_years |-> record.payback]

\* d[key] = value on a dict kept as its item list: an existing key keeps its
\* position and gets the new value, a new key is appended
DictPut(items, entry) ==
    IF \E i \in 1..Len(items) : items[i].id = entry.id
    THEN [i \in 1..Len(items) |-> IF items[i].id = entry.id THEN entry ELSE items[i]]
    ELSE Append(items, entry)

RECURSIVE EnhanceLoop(_, _)
EnhanceLoop(enhanced_scenarios, base_scenarios) ==
    IF base_scenarios = <<>> THEN enhanced_scenarios
    ELSE EnhanceLoop(DictPut(enhanced_scenarios, EnhanceScenario(Head(base_scenarios))),
                     Tail(base_scenarios))

LoadAndEnhanceScenarios(file_exists, base_scenarios) ==
    IF ~file_exists THEN <<>> ELSE EnhanceLoop(<<>>, base_scenarios)

----------------------------------------------------------------------------
(* RAGAgent._initialize_embeddings, _get_embedding, _cosine_similarity,    *)
(* _semantic_search                                                        *)

\* _get_embedding: the provider's vector, or [] when the call raised
GetEmbedding(text, provider_ok) == ProviderResult(text, provider_ok)

\* _cosine_similarity: 0.0 when either list is empty
RagCosineSimilarity(a, b) ==
    IF a = NoEmbedding \/ b = NoEmbedding THEN 0 ELSE VectorCosine(a, b)

\* every scenario and every product is embedded; failing_texts are the
\* texts for which the provider raises
InitializeDboEmbeddings(scenario_items, failing_texts) ==
    [i \in 1..Len(scenario_items) |->
       [id |-> scenario_items[i].id,
        embedding |-> GetEmbedding(scenario_items[i].title,
                                   scenario_items[i].title \notin failing_texts),
        title |-> scenario_items[i].title]]

InitializeProductEmbeddings(catalog, failing_texts) ==
    [i \in 1..Len(CatalogOrder) |->
       [id |-> CatalogOrder[i],
        embedding |-> GetEmbedding(catalog[CatalogOrder[i]].name,
                                   catalog[CatalogOrder[i]].name \notin failing_texts),
        title |-> catalog[CatalogOrder[i]].name]]

\* results.sort(key=similarity, reverse=True): stable
RECURSIVE InsertBySimilarity(_, _)
InsertBySimilarity(sorted, entry) ==
    IF sorted = <<>> THEN <<entry>>
    ELSE IF Head(sorted).similarity >= entry.similarity
         THEN <<Head(sorted)>> \o InsertBySimilarity(Tail(sorted), entry)
         ELSE <<entry>> \o sorted

RECURSIVE SortBySimilarity(_, _)
SortBySimilarity(sorted, entries) ==
    IF entries = <<>> THEN sorted
    ELSE SortBySimilarity(InsertBySimilarity(sorted, Head(entries)), Tail(entries))

SemanticSearch(query, provider_ok, embeddings_dict, top_k) ==
    LET query_embedding == GetEmbedding(query, provider_ok)
        results == [i \in 1..Len(embeddings_dict) |->
                      [id |-> embeddings_dict[i].id,
                       similarity |-> RagCosineSimilarity(query_embedding,
                                                          embeddings_dict[i].embedding),
                       title |-> embeddings_dict[i].title]]
    IN  Take(SortBySimilarity(<<>>, results), top_k)

----------------------------------------------------------------------------
(* DocumentIntelligenceService *)

confidence_threshold == 70

\* section titles of _load_siemens_glossary and _load_dbo_manual, in order
LoadedSections ==
    <<"Digital Business Optimizer (DBO)", "SiGREEN", "DEGREE Framework",
      "Siemens Xcelerator", "What is DBO?", "DBO Key Features">>

\* _create_document_embeddings: one row per chunk, zeros when the call raised
\* (embeddings_matrix is [is_none, rows]: None until the first call)
CreateDocumentEmbeddings(chunks, failing_positions) ==
    [is_none |-> FALSE,
     rows |-> [i \in 1..Len(chunks) |->
                 ProviderResult(chunks[i], i \notin failing_positions)]]

\* sklearn cosine_similarity of the query against one row: 0 for a zero row
RowSimilarity(query_embedding, row) ==
    IF row = NoEmbedding THEN 0 ELSE VectorCosine(query_embedding, row)

\* np.argsort(similarities): indices by ascending similarity.  The default
\* sort kind is not stable: equal similarities come in index order or in
\* reverse index order, depending on the sort the build selects.
RECURSIVE ArgInsert(_, _, _, _)
ArgInsert(sorted, idx, similarities, ties_in_index_order) ==
    IF sorted = <<>> THEN <<idx>>
    ELSE IF \/ similarities[Head(sorted)] < similarities[idx]
            \/ /\ similarities[Head(sorted)] = similarities[idx]
               /\ ties_in_index_order
         THEN <<Head(sorted)>> \o ArgInsert(Tail(sorted), idx, similarities,
                                            ties_in_index_order)
         ELSE <<idx>> \o sorted

RECURSIVE ArgSortFrom(_, _, _, _)
ArgSortFrom(sorted, idx, similarities, ties_in_index_order) ==
    IF idx > Len(similarities) THEN sorted
    ELSE ArgSortFrom(ArgInsert(sorted, idx, similarities, ties_in_index_order),
                     idx + 1, similarities, ties_in_index_order)

ArgSort(similarities, ties_in_index_order) ==
    ArgSortFrom(<<>>, 1, similarities, ties_in_index_order)

Reverse(s) == [i \in 1..Len(s) |-> s[Len(s) + 1 - i]]

\* s[-k:] for k >= 0; s[-0:] is s[0:], the whole list
NegativeSlice(s, k) == IF k = 0 THEN s ELSE LastN(s, k)

\* cosine_similarity([query_embedding], self.embeddings_matrix)[0]: one
\* similarity per row; with the matrix still None sklearn compares the query
\* with itself and returns the single value 1.0
DocSimilarities(query_embedding, matrix) ==
    IF matrix.is_none THEN << VectorCosine(query_embedding, query_embedding) >>
    ELSE [i \in 1..Len(matrix.rows) |-> RowSimilarity(query_embedding, matrix.rows[i])]

\* np.argsort(similarities)[-top_k:][::-1] filtered by the threshold
DocTopIndices(similarities, top_k, ties_in_index_order) ==
    SelectSeq(Reverse(NegativeSlice(ArgSort(similarities, ties_in_index_order), top_k)),
              LAMBDA idx : similarities[idx] >= confidence_threshold)

\* semantic_search: [] when the query embedding fails; IndexError when a
\* kept index has no chunk in document_chunks
DocSemanticSearch(query, provider_ok, chunks, matrix, top_k, ties_in_index_order) ==
    IF ~provider_ok THEN [outcome |-> "ok", results |-> <<>>]
    ELSE LET similarities == DocSimilarities(EmbedVector(query), matrix)
             kept == DocTopIndices(similarities, top_k, ties_in_index_order)
         IN  IF \E i \in 1..Len(kept) : kept[i] > Len(chunks)
             THEN [outcome |-> "error", results |-> <<>>]
             ELSE [outcome |-> "ok",
                   results |-> [i \in 1..Len(kept) |->
                                  [id |-> kept[i],
                                   similarity |-> similarities[kept[i]],
                                   title |-> chunks[kept[i]]]]]

----------------------------------------------------------------------------
(* EnhancedDBOService.search_scenarios: keyword search.  A query is the    *)
(* list of its lower-cased words.                                          *)

TitleWords(title) ==
    CASE title = "Energy Optimization"         -> <<"Energy", "optimization">>
      [] title = "energy-optimization"         -> <<"energy", "optimization">>
      [] title = "Water Usage Reduction"       -> <<"water", "usage", "reduction">>
      [] title = "Smart Building Retrofitting" -> <<"smart", "Building", "retrofitting">>
      [] title = "Waste Heat Recovery"         -> <<"waste", "heat", "recovery">>
      [] OTHER -> <<title>>

SearchableText(scenario) ==
    TitleWords(scenario.title) \o scenario.description \o scenario.implementation_steps

\* sorted(..., key=payback_period): stable ascending
RECURSIVE InsertByPayback(_, _)
InsertByPayback(sorted, entry) ==
    IF sorted = <<>> THEN <<entry>>
    ELSE IF Head(sorted).payback_period <= entry.payback_period
         THEN <<Head(sorted)>> \o InsertByPayback(Tail(sorted), entry)
         ELSE <<entry>> \o sorted

RECURSIVE MatchingScenarios(_, _, _)
MatchingScenarios(sorted, scenario_items, query_words) ==
    IF scenario_items = <<>> THEN sorted
    ELSE LET scenario == Head(scenario_items)
             hit == \E w \in 1..Len(query_words) :
                        Occurs(query_words[w], SearchableText(scenario))
         IN  MatchingScenarios(
                 IF hit THEN InsertByPayback(sorted,
                                 [id |-> scenario.id, title |-> scenario.title,
                                  payback_period |-> scenario.payback_period_years])
                 ELSE sorted,
                 Tail(scenario_items), query_words)

SearchScenarios(scenario_items, query_words) ==
    MatchingScenarios(<<>>, scenario_items, query_words)

KeywordQueries == { <<>>, <<"energy">>, <<"water", "waste">>, <<"supply">> }

----------------------------------------------------------------------------
(* documents.DocumentManager with AdvancedDocumentProcessor.process_document *)
(* A file is [stem, authority, contents]: contents is the list of chunk     *)
(* texts the chunker produces, empty for a missing or empty file.           *)

DocumentFiles ==
    { [stem |-> "dbo_manual", authority |-> "high",
       contents |-> <<"What is DBO?", "DBO Key Features">>],
      [stem |-> "dbo_manual", authority |-> "high",
       contents |-> <<"What is DBO?">>],
      [stem |-> "notes", authority |-> "medium",
       contents |-> <<"SiGREEN">>],
      [stem |-> "notes", authority |-> "medium", contents |-> <<>>] }

\* chunks get their embedding and chunk_id f"{stem}_{i}" (i counted over all
\* chunks, from 0); a chunk whose embedding call raises is dropped
RECURSIVE ProcessChunks(_, _, _, _)
ProcessChunks(processed_chunks, file, i, failing_positions) ==
    IF i > Len(file.contents) THEN processed_chunks
    ELSE ProcessChunks(
             IF i \in failing_positions THEN processed_chunks
             ELSE Append(processed_chunks,
                         [id |-> <<file.stem, i - 1>>,
                          embedding |-> EmbedVector(file.contents[i]),
                          authority |-> file.authority,
                          title |-> file.contents[i]]),
             file, i + 1, failing_positions)

ProcessDocument(file, failing_positions) ==
    ProcessChunks(<<>>, file, 1, failing_positions)

RECURSIVE StoreChunks(_, _)
StoreChunks(stored, chunks) ==
    IF chunks = <<>> THEN stored
    ELSE StoreChunks(DictPut(stored, Head(chunks)), Tail(chunks))

\* add_document: [documents, chunks] after the call
AddDocumentResult(documents, stored, file, failing_positions) ==
    LET chunks == ProcessDocument(file, failing_positions)
    IN  IF chunks = <<>> THEN [documents |-> documents, chunks |-> stored]
        ELSE [documents |-> DictPut(documents,
                                    [id |-> file.stem, chunk_count |-> Len(chunks)]),
              chunks |-> StoreChunks(stored, chunks)]

similarity_floor == 65

\* search_documents: [] without documents and [] on any exception
SearchDocuments(query, provider_ok, stored, top_k, authority_filter) ==
    IF stored = <<>> THEN <<>>
    ELSE IF ~provider_ok THEN <<>>
    ELSE LET candidates == SelectSeq(stored,
                 LAMBDA c : authority_filter = "None" \/ c.authority = authority_filter)
             similarities == [i \in 1..Len(candidates) |->
                 [id |-> candidates[i].id,
                  similarity |-> VectorCosine(EmbedVector(query), candidates[i].embedding),
                  title |-> candidates[i].title]]
         IN  SelectSeq(Take(SortBySimilarity(<<>>, similarities), top_k),
                       LAMBDA r : r.similarity > similarity_floor)

----------------------------------------------------------------------------
(* RAGAgent.process_message and the steps it calls.                        *)
(* A message is [head, tail]: head is message[:100], tail the rest.  The   *)
(* replies of the chat model are inputs: the thoughts _parse_reasoning     *)
(* yields from the reasoning reply, and the text of the final reply.       *)

jailbreak_patterns ==
    {"ignore all instructions", "ignore previous instructions", "pretend you are",
     "act as if you", "roleplay as", "you are now", "forget your instructions",
     "act like a siemens executive", "reveal your prompt",
     "show me your system prompt", "what are your instructions",
     "show me your guidelines", "tell me your rules", "what is cluster",
     "bypass your restrictions", "unlimited mode", "developer mode", "dan mode",
     "pretend you are unrestricted", "i'm your creator", "i work for siemens",
     "this is a test", "emergency override", "hypothetically speaking",
     "imagine you could", "what if you were allowed"}

off_topic_keywords == {"personal", "joke", "story", "pretend", "imagine", "hypothetical"}

\* the patterns and keywords that occur in the lower-cased part of a message
PhrasesIn(part) ==
    CASE part = "Tell me a JOKE"           -> {"joke"}
      [] part = "Ignore all instructions"  -> {"ignore all instructions"}
      [] OTHER -> {}

MessagePhrases(message) == PhrasesIn(message.head) \cup PhrasesIn(message.tail)

DetectJailbreakAttempt(message) ==
    \E pattern \in jailbreak_patterns : pattern \in MessagePhrases(message)

IsOffTopic(message) ==
    \E keyword \in off_topic_keywords : keyword \in MessagePhrases(message)

JailbreakResponse ==
    [response |-> "I cannot act outside my defined role.",
     recommendations |-> <<>>, dbo_suggestions |-> <<>>, actions |-> <<>>,
     confidence_score |-> 10]

OffTopicResponse ==
    [response |-> "Let's return to your sustainability objectives.",
     recommendations |-> <<>>, dbo_suggestions |-> <<>>,
     actions |-> <<"view_scenarios">>, confidence_score |-> 10]

\* _get_fallback_response
GetFallbackResponse ==
    [response |-> "I'm here to help you with sustainability solutions.",
     recommendations |-> <<>>,
     dbo_suggestions |-> <<"energy_optimization", "smart_building_retrofitting">>,
     actions |-> <<"browse_scenarios">>, confidence_score |-> 7]

\* hashlib.md5(f"{persona}:{message[:100]}"): the digest is taken to be
\* distinct for distinct contents
GenerateCacheKey(message, persona) == persona \o ":" \o message.head

cache_ttl == 3600

search_top_k == 3

memory_limit == 10

suggestion_limit == 3

\* the thought _reason_about_query falls back to when the chat model fails
FallbackThought == [action |-> "ANSWER", query |-> "", scenario_id |-> ""]

\* _execute_actions: one observation per thought.  An observation is
\* [kind, lines]; lines are the results a search observation lists.
ObservationOf(thought, provider_ok, dbo_index, product_index) ==
    CASE thought.action = "SEARCH_DBO" ->
           LET results == SemanticSearch(thought.query, provider_ok, dbo_index,
                                         search_top_k)
           IN  [kind |-> IF results = <<>> THEN "no_dbo" ELSE "found_dbo",
                lines |-> results]
      [] thought.action = "SEARCH_PRODUCTS" ->
           LET results == SemanticSearch(thought.query, provider_ok, product_index,
                                         search_top_k)
           IN  [kind |-> IF results = <<>> THEN "no_products" ELSE "found_products",
                lines |-> results]
      [] thought.action = "GET_DBO_DETAILS" ->
           [kind |-> IF \E i \in 1..Len(dbo_index) : dbo_index[i].id = thought.scenario_id
                     THEN "details" ELSE "details_not_found",
            lines |-> <<>>]
      [] thought.action = "ANSWER" -> [kind |-> "ready", lines |-> <<>>]
      [] OTHER -> [kind |-> "none", lines |-> <<>>]

ExecuteActions(thoughts, failing, dbo_index, product_index) ==
    [i \in 1..Len(thoughts) |->
        ObservationOf(thoughts[i], i \notin failing, dbo_index, product_index)]

\* _extract_products_from_observation: for every "- name (" line the first
\* product of product_embeddings with that name
RECURSIVE ExtractProductsFromObservation(_, _)
ExtractProductsFromObservation(lines, product_index) ==
    IF lines = <<>> THEN <<>>
    ELSE LET hits == SelectSeq(product_index, LAMBDA e : e.title = Head(lines).title)
         IN  (IF hits = <<>> THEN <<>> ELSE << Head(hits).id >>)
                 \o ExtractProductsFromObservation(Tail(lines), product_index)

\* _extract_scenarios_from_observation: the scenarios of dbo_embeddings, in
\* index order, whose title occurs in the observation (no title of the
\* scenario files is part of another one or of the fixed wording)
ExtractScenariosFromObservation(lines, dbo_index) ==
    LET hits == SelectSeq(dbo_index,
                          LAMBDA e : \E i \in 1..Len(lines) : lines[i].title = e.title)
    IN  [i \in 1..Len(hits) |-> hits[i].id]

\* items tagged with the position of the thought they were extracted from
RECURSIVE TaggedItems(_, _, _, _, _, _)
TaggedItems(action, thoughts, observations, i, dbo_index, product_index) ==
    IF i > Len(thoughts) THEN <<>>
    ELSE LET items == IF thoughts[i].action # action THEN <<>>
                      ELSE IF action = "SEARCH_PRODUCTS"
                           THEN ExtractProductsFromObservation(observations[i].lines,
                                                               product_index)
                           ELSE ExtractScenariosFromObservation(observations[i].lines,
                                                                dbo_index)
         IN  [k \in 1..Len(items) |-> [item |-> items[k], thought |-> i]]
                \o TaggedItems(action, thoughts, observations, i + 1,
                               dbo_index, product_index)

MentionsExpert(response_text) == response_text = "Please contact an expert."

\* _determine_actions
DetermineActions(response_text, dbo_suggestions) ==
    LET explore == Take(dbo_suggestions, 2)
    IN  [i \in 1..Len(explore) |-> "explore_" \o explore[i]]
            \o (IF MentionsExpert(response_text) THEN <<"contact_expert">> ELSE <<>>)

\* _structure_response: the response and, for its recommendations and
\* dbo_suggestions, the thought each of them came from
StructureResponse(response_text, thoughts, observations, dbo_index, product_index) ==
    LET products == TaggedItems("SEARCH_PRODUCTS", thoughts, observations, 1,
                                dbo_index, product_index)
        suggested == TaggedItems("SEARCH_DBO", thoughts, observations, 1,
                                 dbo_index, product_index)
        dbo_suggestions == [i \in 1..Len(suggested) |-> suggested[i].item]
        kept_products == Take(products, suggestion_limit)
        kept_suggested == Take(suggested, suggestion_limit)
    IN  [response |->
            [response |-> response_text,
             recommendations |-> [i \in 1..Len(kept_products) |-> kept_products[i].item],
             dbo_suggestions |-> [i \in 1..Len(kept_suggested) |-> kept_suggested[i].item],
             actions |-> Take(DetermineActions(response_text, dbo_suggestions),
                              suggestion_limit),
             confidence_score |-> 9],
         origins |-> { kept_products[i].thought : i \in 1..Len(kept_products) }
                        \cup { kept_suggested[i].thought : i \in 1..Len(kept_suggested) }]

\* _generate_final_response
GenerateFinalResponse(llm, thoughts, observations, dbo_index, product_index) ==
    IF llm.respond_ok
    THEN StructureResponse(llm.response_text, thoughts, observations,
                           dbo_index, product_index)
    ELSE [response |-> GetFallbackResponse, origins |-> {}]

Get(dict, key, default) == IF key \in DOMAIN dict THEN dict[key] ELSE default

Put(dict, key, value) ==
    [k \in DOMAIN dict \cup {key} |-> IF k = key THEN value ELSE dict[k]]

UpdateEverySession(memory, session_id, message, response, timestamp) ==
    [s \in DOMAIN memory \cup {session_id} |->
        LastN(Append(Get(memory, s, <<>>),
                     [user |-> message, assistant |-> response.response,
                      timestamp |-> timestamp]),
              memory_limit)]

UpdateKeepingOldest(memory, session_id, message, response, timestamp) ==
    Put(memory, session_id,
        Take(Append(Get(memory, session_id, <<>>),
                    [user |-> message, assistant |-> response.response,
                     timestamp |-> timestamp]),
             memory_limit))

\* _update_conversation_memory
UpdateConversationMemory(memory, session_id, message, response, timestamp) ==
    Put(memory, session_id,
        LastN(Append(Get(memory, session_id, <<>>),
                     [user |-> message, assistant |-> response.response,
                      timestamp |-> timestamp]),
              memory_limit))

CacheHitAtExpiry(cache, cache_key, timestamp) ==
    /\ cache_key \in DOMAIN cache
    /\ timestamp - cache[cache_key].timestamp <= cache_ttl

CacheHit(cache, cache_key, timestamp) ==
    /\ cache_key \in DOMAIN cache
    /\ timestamp - cache[cache_key].timestamp < cache_ttl

\* process_message: [path, response, origins, thoughts, memory, cache]
ProcessMessageResult(message, persona, session_id, llm, memory, cache, timestamp, dbo_index, product_index) ==
    LET cache_key == GenerateCacheKey(message, persona)
        conversation_history == Get(memory, session_id, <<>>)
        thoughts == IF llm.reason_ok THEN llm.thoughts ELSE <<FallbackThought>>
        observations == ExecuteActions(thoughts, llm.failing, dbo_index, product_index)
        final == GenerateFinalResponse(llm, thoughts, observations,
                                       dbo_index, product_index)
        searches == { i \in 1..Len(thoughts) :
                         thoughts[i].action \in {"SEARCH_DBO", "SEARCH_PRODUCTS"} }
    IN  IF DetectJailbreakAttempt(message)
        THEN [path |-> "jailbreak", response |-> JailbreakResponse, origins |-> {},
              thoughts |-> <<>>, memory |-> memory, cache |-> cache,
              history |-> <<>>, model_calls |-> 0, embedding_calls |-> 0]
        ELSE IF IsOffTopic(message)
        THEN [path |-> "off_topic", response |-> OffTopicResponse, origins |-> {},
              thoughts |-> <<>>, memory |-> memory, cache |-> cache,
              history |-> <<>>, model_calls |-> 0, embedding_calls |-> 0]
        ELSE IF CacheHit(cache, cache_key, timestamp)
        THEN [path |-> "cached", response |-> cache[cache_key].response,
              origins |-> {}, thoughts |-> <<>>, memory |-> memory, cache |-> cache,
              history |-> <<>>, model_calls |-> 0, embedding_calls |-> 0]
        ELSE [path |-> IF llm.respond_ok THEN "structured" ELSE "fallback",
              response |-> final.response, origins |-> final.origins,
              thoughts |-> thoughts,
              memory |-> UpdateConversationMemory(memory, session_id, message,
                                                  final.response, timestamp),
              cache |-> Put(cache, cache_key,
                            [response |-> final.response, timestamp |-> timestamp]),
              history |-> conversation_history,
              model_calls |-> 2, embedding_calls |-> Cardinality(searches)]

----------------------------------------------------------------------------
(* State machine of the recommendation service *)

XInit ==
    /\ xcelerator_catalog = LoadXceleratorCatalog
    /\ nreq = 0
    /\ last_op = "none"
    /\ last_profile = NoProfile
    /\ last_dbo = NoDbo
    /\ last_suitable = <<>>
    /\ last_matched = <<>>
    /\ last_scored = <<>>
    /\ last_recs = <<>>
    /\ last_status = "ok"

\* one call of analyze_dbo_output_and_recommend
Recommend(dbo_output, user_profile) ==
    /\ nreq < MaxRequests
    /\ \E r \in {AnalyzeDboOutputAndRecommend(xcelerator_catalog, dbo_output, user_profile)} :
        /\ nreq' = nreq + 1
        /\ xcelerator_catalog' = r.catalog
        /\ last_op' = "recommend"
        /\ last_profile' = user_profile
        /\ last_dbo' = dbo_output
        /\ last_suitable' = r.suitable
        /\ last_matched' = r.matched
        /\ last_scored' = r.scored
        /\ last_recs' = r.recommendations
        /\ last_status' = r.status
        /\ UNCHANGED <<dvars, rvars, ivars, mvars, svars, cvars>>
    /\ UNCHANGED kvars

\* _score_and_rank_recommendations followed by
\* _generate_detailed_recommendations, applied to a given matched_products
RankAndDetail(matched_products, dbo_output, user_profile) ==
    /\ last_op = "none"
    /\ \E scored \in {ScoreAndRankRecommendations(xcelerator_catalog, matched_products,
                                                  dbo_output, user_profile)} :
       \E final \in {GenerateDetailedRecommendations(xcelerator_catalog, scored,
                                                     user_profile)} :
        /\ nreq' = nreq + 1
        /\ xcelerator_catalog' = final.catalog
        /\ last_op' = "rank"
        /\ last_profile' = user_profile
        /\ last_dbo' = dbo_output
        /\ last_suitable' = <<>>
        /\ last_matched' = matched_products
        /\ last_scored' = scored
        /\ last_recs' = final.recommendations
        /\ last_status' = final.status
        /\ UNCHANGED <<dvars, rvars, ivars, mvars, svars, cvars>>
    /\ UNCHANGED kvars

----------------------------------------------------------------------------
(* State machine of the search services *)

NoSearch ==
    [op |-> "none", query |-> "", provider_ok |-> TRUE, top_k |-> 0,
     authority_filter |-> "None",
     index_size |-> 0, outcome |-> "ok", results |-> <<>>]

NoFile == [exists |-> FALSE, records |-> <<>>]

NoLookup ==
    [endpoint |-> "none", scenario_id |-> "", persona |-> "", status |-> 0,
     body |-> <<>>]

SInit ==
    /\ scenarios = <<>>
    /\ dbo_loaded = FALSE
    /\ scenarios_file = NoFile
    /\ lookup = NoLookup
    /\ nlookup = 0
    /\ dbo_embeddings = <<>>
    /\ product_embeddings = <<>>
    /\ rag_ready = FALSE
    /\ document_chunks = <<>>
    /\ embeddings_matrix = [is_none |-> TRUE, rows |-> <<>>]
    /\ ninit = 0
    /\ manager_documents = <<>>
    /\ manager_chunks = <<>>
    /\ nadd = 0
    /\ search = NoSearch

\* dbo_service = EnhancedDBOService()
LoadScenarios(file_exists, base_scenarios) ==
    /\ ~dbo_loaded
    /\ scenarios' = LoadAndEnhanceScenarios(file_exists, base_scenarios)
    /\ dbo_loaded' = TRUE
    /\ scenarios_file' = [exists |-> file_exists,
                          records |-> IF file_exists THEN base_scenarios ELSE <<>>]
    /\ UNCHANGED <<lookup, nlookup>>
    /\ UNCHANGED <<xvars, rvars, ivars, mvars, svars, cvars>>
    /\ UNCHANGED kvars

----------------------------------------------------------------------------
(* EnhancedDBOService.get_enhanced_scenario and the scenario endpoints     *)

HasScenario(scenario_items, scenario_id) ==
    \E i \in 1..Len(scenario_items) : scenario_items[i].id = scenario_id

StoredScenario(scenario_items, scenario_id) ==
    scenario_items[CHOOSE i \in 1..Len(scenario_items) :
                       scenario_items[i].id = scenario_id]

dbo_personas == {"zuri", "amina", "bjorn", "arjun"}

\* _get_persona_insights: the sentence of the persona with the value it
\* interpolates (the title for zuri, the payback period for amina)
GetPersonaInsights(persona, scenario) ==
    [sentence |-> IF persona \in dbo_personas THEN persona ELSE "default",
     title    |-> IF persona = "zuri" THEN scenario.title ELSE "",
     payback  |-> IF persona = "amina" THEN scenario.payback_period_years ELSE 0]

persona_additions(persona) ==
    CASE persona = "zuri"  -> <<"Develop enterprise rollout strategy",
                                "Integrate with ESG reporting">>
      [] persona = "amina" -> <<"Prioritize highest-ROI components",
                                "Secure financing options">>
      [] persona = "bjorn" -> <<"Leverage existing Siemens contracts",
                                "Plan system integration">>
      [] persona = "arjun" -> <<"Establish sustainability metrics",
                                "Create communication strategy">>
      [] OTHER -> <<>>

\* base_recs + persona_additions.get(persona, []): a new list
GetPersonaRecommendations(persona, scenario) ==
    scenario.implementation_steps \o persona_additions(persona)

\* in hundredths; payback_period_years is kept in tenths of a year
CalculateConfidenceScore(scenario, persona) ==
    LET s1 == 80
        s2 == IF Len(scenario.implementation_steps) >= 4 THEN s1 + 5 ELSE s1
        s3 == IF scenario.payback_period_years <= 30 THEN s2 + 5 ELSE s2
        s4 == IF persona \in dbo_personas THEN s3 + 5 ELSE s3
    IN  MinOf(s4, 95)

\* the three assignments scenario[key] = ... on a dict
AddPersonaAnalysis(scenario, persona) ==
    LET a == Put(scenario, "persona_insights", GetPersonaInsights(persona, scenario))
        b == Put(a, "persona_recommendations", GetPersonaRecommendations(persona, a))
    IN  Put(b, "confidence_score", CalculateConfidenceScore(b, persona))

\* the same analysis written into the stored entry instead of a copy
GetEnhancedScenarioInPlace(scenario_items, scenario_id, persona) ==
    IF ~HasScenario(scenario_items, scenario_id)
    THEN [raised |-> "ValueError", scenario |-> <<>>, scenarios |-> scenario_items]
    ELSE LET scenario == AddPersonaAnalysis(StoredScenario(scenario_items, scenario_id),
                                            persona)
         IN  [raised |-> "None", scenario |-> scenario,
              scenarios |-> DictPut(scenario_items, scenario)]

\* scenario = self.scenarios[scenario_id].copy(): the keys are added to the
\* copy, and no list or dict the copy shares with the stored entry is
\* changed in place
GetEnhancedScenario(scenario_items, scenario_id, persona) ==
    IF ~HasScenario(scenario_items, scenario_id)
    THEN [raised |-> "ValueError", scenario |-> <<>>, scenarios |-> scenario_items]
    ELSE LET scenario == AddPersonaAnalysis(StoredScenario(scenario_items, scenario_id),
                                            persona)
         IN  [raised |-> "None", scenario |-> scenario, scenarios |-> scenario_items]

Served(endpoint, scenario_id, persona, status, body) ==
    /\ lookup' = [endpoint |-> endpoint, scenario_id |-> scenario_id,
                  persona |-> persona, status |-> status, body |-> body]
    /\ nlookup' = nlookup + 1

\* POST /api/v1/dbo/scenario
GetDboScenario(scenario_id, persona) ==
    /\ dbo_loaded
    /\ nlookup < MaxLookups
    /\ \E r \in {GetEnhancedScenario(scenarios, scenario_id, persona)} :
        /\ scenarios' = r.scenarios
        /\ IF r.raised = "ValueError"
           THEN Served("POST /scenario", scenario_id, persona, 404, <<>>)
           ELSE Served("POST /scenario", scenario_id, persona, 200,
                       [scenario_id |-> scenario_id,
                        title |-> r.scenario.title,
                        description |-> r.scenario.description,
                        implementation_steps |-> r.scenario.implementation_steps,
                        persona_insights |-> r.scenario.persona_insights,
                        confidence_score |-> r.scenario.confidence_score])
    /\ UNCHANGED <<dbo_loaded, scenarios_file>>
    /\ UNCHANGED <<xvars, rvars, ivars, mvars, svars, cvars>>
    /\ UNCHANGED kvars

\* GET /api/v1/dbo/scenario/{scenario_id}
GetScenarioSummary(scenario_id) ==
    /\ dbo_loaded
    /\ nlookup < MaxLookups
    /\ IF ~HasScenario(scenarios, scenario_id)
       THEN Served("GET /scenario/{id}", scenario_id, "", 404, <<>>)
       ELSE \E scenario \in {StoredScenario(scenarios, scenario_id)} :
              Served("GET /scenario/{id}", scenario_id, "", 200,
                     [id |-> scenario_id,
                      title |-> scenario.title,
                      description |-> scenario.description,
                      payback_period |-> scenario.payback_period_years])
    /\ UNCHANGED <<scenarios, dbo_loaded, scenarios_file>>
    /\ UNCHANGED <<xvars, rvars, ivars, mvars, svars, cvars>>
    /\ UNCHANGED kvars

\* DBOToolOutput(scenario_title=..., scenario_description=...,
\* recommended_actions=..., estimated_benefits=...) of an enhanced scenario
WorkflowDboOutput(dbo_scenario) ==
    [scenario_text |-> TitleWords(dbo_scenario.title) \o dbo_scenario.description,
     recommended_actions |-> dbo_scenario.implementation_steps,
     benefit_keys |-> <<"payback_period_years">>,
     payback |-> dbo_scenario.payback_period_years]

WorkflowProfiles ==
    { [sustainability_proficiency |-> "beginner",
       technological_proficiency |-> "beginner",
       regulatory_compliance_importance |-> "low"],
      [sustainability_proficiency |-> "expert",
       technological_proficiency |-> "advanced",
       regulatory_compliance_importance |-> "critical"] }

\* POST /api/v1/integration/simulate-dbo-workflow: every exception of the
\* body, the ValueError of the lookup included, reaches `except Exception`
SimulateCompleteWorkflow(scenario_id, user_profile, persona) ==
    /\ dbo_loaded
    /\ nlookup < MaxLookups
    /\ \E r \in {GetEnhancedScenario(scenarios, scenario_id, persona)} :
        /\ scenarios' = r.scenarios
        /\ IF r.raised = "ValueError"
           THEN /\ Served("POST /simulate-dbo-workflow", scenario_id, persona, 500, <<>>)
                /\ UNCHANGED xcelerator_catalog
           ELSE \E x \in {AnalyzeDboOutputAndRecommend(xcelerator_catalog,
                               WorkflowDboOutput(r.scenario), user_profile)} :
                /\ xcelerator_catalog' = x.catalog
                /\ IF x.status = "error"
                   THEN Served("POST /simulate-dbo-workflow", scenario_id, persona,
                               500, <<>>)
                   ELSE Served("POST /simulate-dbo-workflow", scenario_id, persona, 200,
                               [scenario_id |-> scenario_id,
                                scenario_title |-> r.scenario.title,
                                persona_insights |-> r.scenario.persona_insights,
                                xcelerator_recommendations |-> x.recommendations])
    /\ UNCHANGED <<dbo_loaded, scenarios_file>>
    /\ UNCHANGED <<nreq, last_op, last_profile, last_dbo, last_suitable,
                   last_matched, last_scored, last_recs, last_status>>
    /\ UNCHANGED <<rvars, ivars, mvars, svars, cvars>>
    /\ UNCHANGED kvars

IndexedTexts ==
    { LoadXceleratorCatalog[p].name : p \in ProductIds }
        \cup { "Energy Optimization", "energy-optimization", "Water Usage Reduction",
               "Smart Building Retrofitting", "Waste Heat Recovery" }

OutageTexts == { {}, IndexedTexts, {"Energy Optimization", "Desigo CC"} }

\* rag_agent = RAGAgent(): _initialize_embeddings
RagInitialize(failing_texts) ==
    /\ dbo_loaded
    /\ ~rag_ready
    /\ dbo_embeddings' = InitializeDboEmbeddings(scenarios, failing_texts)
    /\ product_embeddings' = InitializeProductEmbeddings(xcelerator_catalog, failing_texts)
    /\ rag_ready' = TRUE
    /\ UNCHANGED <<xvars, dvars, ivars, mvars, svars, cvars>>
    /\ UNCHANGED kvars

\* RAGAgent._semantic_search over one of the two indexes
RagSemanticSearch(index_name, query, provider_ok, top_k) ==
    /\ rag_ready
    /\ \E embeddings_dict \in {IF index_name = "dbo" THEN dbo_embeddings
                                ELSE product_embeddings} :
           search' = [op |-> "rag", query |-> query, provider_ok |-> provider_ok,
                      top_k |-> top_k, authority_filter |-> "None", index_size |-> Len(embeddings_dict),
                      outcome |-> "ok",
                      results |-> SemanticSearch(query, provider_ok, embeddings_dict, top_k)]
    /\ UNCHANGED <<xvars, dvars, rvars, ivars, mvars, cvars>>
    /\ UNCHANGED kvars

\* EnhancedDBOService.search_scenarios
KeywordSearch(query_words) ==
    /\ dbo_loaded
    /\ search' = [op |-> "keyword", query |-> query_words, provider_ok |-> TRUE,
                  top_k |-> 0, authority_filter |-> "None", index_size |-> Len(scenarios), outcome |-> "ok",
                  results |-> SearchScenarios(scenarios, query_words)]
    /\ UNCHANGED <<xvars, dvars, rvars, ivars, mvars, cvars>>
    /\ UNCHANGED kvars

OutagePositions(n) == { {}, 1..n } \cup { {i} : i \in 1..n }

\* DocumentIntelligenceService.initialize
DocInitialize(failing_positions) ==
    /\ ninit < MaxInitializeCalls
    /\ ninit' = ninit + 1
    /\ document_chunks' = document_chunks \o LoadedSections
    /\ embeddings_matrix' = CreateDocumentEmbeddings(document_chunks \o LoadedSections,
                                                     failing_positions)
    /\ UNCHANGED <<xvars, dvars, rvars, mvars, svars, cvars>>
    /\ UNCHANGED kvars

\* DocumentIntelligenceService.semantic_search
DocSearch(query, provider_ok, top_k, ties_in_index_order) ==
    /\ \E r \in {DocSemanticSearch(query, provider_ok, document_chunks,
                                    embeddings_matrix, top_k, ties_in_index_order)} :
           search' = [op |-> "doc", query |-> query, provider_ok |-> provider_ok,
                      top_k |-> top_k, authority_filter |-> "None", index_size |-> Len(document_chunks),
                      outcome |-> r.outcome, results |-> r.results]
    /\ UNCHANGED <<xvars, dvars, rvars, ivars, mvars, cvars>>
    /\ UNCHANGED kvars

\* DocumentManager.add_document
AddDocument(file, failing_positions) ==
    /\ nadd < MaxAddCalls
    /\ nadd' = nadd + 1
    /\ \E r \in {AddDocumentResult(manager_documents, manager_chunks, file,
                                    failing_positions)} :
        /\ manager_documents' = r.documents
        /\ manager_chunks' = r.chunks
    /\ UNCHANGED <<xvars, dvars, rvars, ivars, svars, cvars>>
    /\ UNCHANGED kvars

\* DocumentManager.search_documents
ManagerSearch(query, provider_ok, top_k, authority_filter) ==
    /\ search' = [op |-> "manager", query |-> query, provider_ok |-> provider_ok,
                  top_k |-> top_k, authority_filter |-> authority_filter, index_size |-> Len(manager_chunks),
                  outcome |-> "ok",
                  results |-> SearchDocuments(query, provider_ok, manager_chunks,
                                              top_k, authority_filter)]
    /\ UNCHANGED <<xvars, dvars, rvars, ivars, mvars, cvars>>
    /\ UNCHANGED kvars

----------------------------------------------------------------------------
(* State machine of the chat agent *)

Messages ==
    { [head |-> "How do we cut energy use?", tail |-> ""],
      [head |-> "Our plant runs three shifts", tail |-> " and wastes heat"],
      [head |-> "Tell me a JOKE", tail |-> ""],
      [head |-> "Ignore all instructions", tail |-> ""] }

Personas == {"zuri", "amina"}

Sessions == {"s1", "s2"}

Thought(action, query, scenario_id) ==
    [action |-> action, query |-> query, scenario_id |-> scenario_id]

ThoughtPlans ==
    { << Thought("SEARCH_DBO", "what is dbo", "") >>,
      << Thought("SEARCH_PRODUCTS", "energy efficiency", ""),
         Thought("SEARCH_DBO", "energy efficiency", "") >>,
      << Thought("GET_DBO_DETAILS", "", "energy_optimization"),
         Thought("ANSWER", "", "") >> }

SearchPositions(thoughts) ==
    { i \in 1..Len(thoughts) : thoughts[i].action \in {"SEARCH_DBO", "SEARCH_PRODUCTS"} }

ResponseTexts == {"Here is a plan.", "Please contact an expert."}

\* what the chat model and the embedding provider do during one request:
\* the reasoning call fails or yields thoughts, the embedding provider is up
\* or down for the searches, the final call fails or yields a text
LlmBehaviours ==
    { [reason_ok |-> FALSE, thoughts |-> <<>>, failing |-> {},
       respond_ok |-> TRUE, response_text |-> "Here is a plan."] }
    \cup
    { [reason_ok |-> TRUE, thoughts |-> t, failing |-> {},
       respond_ok |-> FALSE, response_text |-> ""] : t \in ThoughtPlans }
    \cup
    { [reason_ok |-> TRUE, thoughts |-> t, failing |-> f,
       respond_ok |-> TRUE, response_text |-> text] :
        t \in ThoughtPlans, f \in {{}, {1}, {1, 2}}, text \in ResponseTexts }

NoChat ==
    [message |-> [head |-> "", tail |-> ""], persona |-> "", session_id |-> "",
     path |-> "none", thoughts |-> <<>>, failing |-> {},
     response |-> JailbreakResponse, origins |-> {},
     history |-> <<>>, model_calls |-> 0, embedding_calls |-> 0]

CInit ==
    /\ conversation_memory = << >>
    /\ response_cache = << >>
    /\ now = 0
    /\ nchat = 0
    /\ nupdate = 0
    /\ chat = NoChat

\* one call of rag_agent.process_message
ProcessMessage(message, persona, session_id, llm) ==
    /\ rag_ready
    /\ nchat < MaxChats
    /\ nchat' = nchat + 1
    /\ \E r \in {ProcessMessageResult(message, persona, session_id, llm,
                                      conversation_memory, response_cache, now,
                                      dbo_embeddings, product_embeddings)} :
        /\ conversation_memory' = r.memory
        /\ response_cache' = r.cache
        /\ chat' = [message |-> message, persona |-> persona,
                    session_id |-> session_id, path |-> r.path,
                    thoughts |-> r.thoughts,
                    failing |-> llm.failing \cap SearchPositions(r.thoughts),
                    response |-> r.response, origins |-> r.origins,
                    history |-> r.history, model_calls |-> r.model_calls,
                    embedding_calls |-> r.embedding_calls]
    /\ UNCHANGED <<xvars, dvars, rvars, ivars, mvars, svars, now, nupdate>>
    /\ UNCHANGED kvars

\* time passes between two requests
Tick(seconds) ==
    /\ now + seconds <= MaxClock
    /\ now' = now + seconds
    /\ UNCHANGED <<xvars, dvars, rvars, ivars, mvars, svars,
                   conversation_memory, response_cache, nchat, nupdate, chat>>
    /\ UNCHANGED kvars

\* one call of _update_conversation_memory(session_id, message, response)
UpdateMemory(session_id, message, response) ==
    /\ nupdate < MaxUpdates
    /\ nupdate' = nupdate + 1
    /\ conversation_memory' =
           UpdateConversationMemory(conversation_memory, session_id, message,
                                    response, now)
    /\ UNCHANGED <<xvars, dvars, rvars, ivars, mvars, svars,
                   response_cache, now, nchat, chat>>
    /\ UNCHANGED kvars

----------------------------------------------------------------------------
(* vector_db DocumentManager: cutting one text into overlapping chunks.
   A text is a sequence of characters; offsets are Python's, counted from 0. *)

\* every text of up to MaxTextLen characters over a letter, the full stop,
\* the space and the exclamation mark
ChunkTexts == UNION { [1..n -> {"a", ".", " ", "!"}] : n \in 0..MaxTextLen }

\* DocumentManager(chunk_size, chunk_overlap) with 0 <= chunk_overlap < chunk_size
ChunkSettings ==
    { c \in [chunk_size : 1..MaxChunkSize, chunk_overlap : 0..(MaxChunkSize - 1)] :
        c.chunk_overlap < c.chunk_size }

\* the sentence breaks the loop looks for, in the order it tries them
SentenceBreaks == << <<".", " ">>, <<".", "\n">>, <<"!", " ">>, <<"?", " ">> >>

\* a slice bound as Python reads it: negative counts from the end, then clamped
SliceIndex(i, n) ==
    IF i < 0 THEN (IF n + i < 0 THEN 0 ELSE n + i)
    ELSE IF i > n THEN n ELSE i

\* text[start:end]
Slice(text, start, end) ==
    LET lo == SliceIndex(start, Len(text))
        hi == SliceIndex(end, Len(text))
    IN  IF lo >= hi THEN <<>> ELSE SubSeq(text, lo + 1, hi)

\* text.rfind(punct, start, end): the highest offset of punct inside
\* text[start:end], -1 when there is none
Rfind(text, punct, start, end) ==
    LET lo == SliceIndex(start, Len(text))
        hi == SliceIndex(end, Len(text))
        hits == { i \in lo..(hi - Len(punct)) :
                    \A k \in 1..Len(punct) : text[i + k] = punct[k] }
    IN  IF hits = {} THEN -1
        ELSE CHOOSE i \in hits : \A j \in hits : j <= i

\* str.strip(): leading and trailing whitespace removed
Strip(chunk) ==
    LET inked == { i \in 1..Len(chunk) : chunk[i] \notin {" ", "\n"} }
    IN  IF inked = {} THEN <<>>
        ELSE SubSeq(chunk,
                    CHOOSE i \in inked : \A j \in inked : i <= j,
                    CHOOSE i \in inked : \A j \in inked : j <= i)

\* the end of the window that starts at start: start + chunk_size, pulled
\* back to just after the last sentence break of the first kind found in
\* the window when the window does not reach the end of the text
WindowEnd(text, start, chunk_size) ==
    LET end == start + chunk_size
        found == { p \in 1..Len(SentenceBreaks) :
                     Rfind(text, SentenceBreaks[p], start, end) # -1 }
    IN  IF end < Len(text) /\ found # {}
        THEN Rfind(text, SentenceBreaks[CHOOSE p \in found : \A q \in found : p <= q],
                   start, end) + 1
        ELSE end

\* no text has been handed to _chunk_text yet
KInit ==
    chunker = [pc |-> "idle", text |-> <<>>, chunk_size |-> 1, chunk_overlap |-> 0,
               start |-> 0, end |-> 0, chunks |-> <<>>, iterations |-> 0]

\* _chunk_text(text) is entered: chunks = [], start = 0
ChunkTextCall(text, setting) ==
    /\ chunker.pc = "idle"
    /\ chunker' = [pc |-> "loop", text |-> text,
                   chunk_size |-> setting.chunk_size,
                   chunk_overlap |-> setting.chunk_overlap,
                   start |-> 0, end |-> 0, chunks |-> <<>>, iterations |-> 0]
    /\ UNCHANGED <<xvars, dvars, rvars, ivars, mvars, svars, cvars>>

\* one pass through the body of `while start < len(text)`
ChunkLoopIteration ==
    /\ chunker.pc = "loop"
    /\ chunker.start < Len(chunker.text)
    /\ chunker.iterations < MaxIterations
    /\ \E end \in {WindowEnd(chunker.text, chunker.start, chunker.chunk_size)} :
       \E chunk \in {Strip(Slice(chunker.text, chunker.start, end))} :
           chunker' = [chunker EXCEPT
                          !.chunks = IF chunk # <<>> THEN Append(@, chunk) ELSE @,
                          !.end = end,
                          !.start = end - chunker.chunk_overlap,
                          !.iterations = @ + 1]
    /\ UNCHANGED <<xvars, dvars, rvars, ivars, mvars, svars, cvars>>

\* the loop condition fails and the chunks are returned
ChunkTextReturn ==
    /\ chunker.pc = "loop"
    /\ chunker.start >= Len(chunker.text)
    /\ chunker' = [chunker EXCEPT !.pc = "done"]
    /\ UNCHANGED <<xvars, dvars, rvars, ivars, mvars, svars, cvars>>

vars == <<xvars, dvars, rvars, ivars, mvars, svars, cvars, kvars>>

Init == XInit /\ SInit /\ CInit /\ KInit

LookupIds == {"energy_optimization", "waste_heat_recovery", "heat_pump_rollout"}

LookupPersonas == {"zuri", "amina", "general"}

NextDbo ==
    \/ \E file_exists \in BOOLEAN, base_scenarios \in ScenarioFiles :
           LoadScenarios(file_exists, base_scenarios)
    \/ \E scenario_id \in LookupIds, persona \in LookupPersonas :
           GetDboScenario(scenario_id, persona)
    \/ \E scenario_id \in LookupIds : GetScenarioSummary(scenario_id)
    \/ \E scenario_id \in LookupIds, user_profile \in WorkflowProfiles,
          persona \in LookupPersonas :
           SimulateCompleteWorkflow(scenario_id, user_profile, persona)

SpecDbo == Init /\ [][NextDbo]_vars

NextRag ==
    \/ \E file_exists \in BOOLEAN, base_scenarios \in ScenarioFiles :
           LoadScenarios(file_exists, base_scenarios)
    \/ \E failing_texts \in OutageTexts : RagInitialize(failing_texts)
    \/ \E index_name \in {"dbo", "products"}, query \in QueryTexts,
          provider_ok \in BOOLEAN, top_k \in 0..MaxTopK :
           RagSemanticSearch(index_name, query, provider_ok, top_k)
    \/ \E query_words \in KeywordQueries : KeywordSearch(query_words)

NextDocIntel ==
    \/ \E failing_positions \in OutagePositions(Len(LoadedSections)) :
           DocInitialize(failing_positions)
    \/ \E query \in QueryTexts, provider_ok \in BOOLEAN, top_k \in 0..MaxTopK,
          ties_in_index_order \in BOOLEAN :
           DocSearch(query, provider_ok, top_k, ties_in_index_order)

NextDocMgr ==
    \/ \E file \in DocumentFiles :
       \E failing_positions \in SUBSET (1..Len(file.contents)) :
           AddDocument(file, failing_positions)
    \/ \E query \in QueryTexts, provider_ok \in BOOLEAN, top_k \in 0..MaxTopK,
          authority_filter \in {"None", "high"} :
           ManagerSearch(query, provider_ok, top_k, authority_filter)

NextChat ==
    \/ \E base_scenarios \in ScenarioFiles : LoadScenarios(TRUE, base_scenarios)
    \/ RagInitialize({})
    \/ \E message \in Messages, persona \in Personas, session_id \in Sessions,
          llm \in LlmBehaviours :
           ProcessMessage(message, persona, session_id, llm)
    \/ Tick(TickSeconds)

\* requests that share a cache key or not, around the expiry of an entry
CacheMessages ==
    { [head |-> "How do we cut energy use?", tail |-> ""],
      [head |-> "Our plant runs three shifts", tail |-> " and wastes heat"],
      [head |-> "Our plant runs three shifts", tail |-> " and buys green power"] }

CacheBehaviours ==
    { llm \in LlmBehaviours :
         \/ ~llm.reason_ok
         \/ ~llm.respond_ok /\ Len(llm.thoughts) = 1
         \/ /\ llm.respond_ok
            /\ Len(llm.thoughts) = 1
            /\ llm.failing = {}
            /\ llm.response_text = "Please contact an expert." }

NextSession ==
    \/ \E base_scenarios \in { f \in ScenarioFiles : Len(f) > 2 } :
           LoadScenarios(TRUE, base_scenarios)
    \/ RagInitialize({})
    \/ \E message \in CacheMessages, persona \in Personas, session_id \in Sessions,
          llm \in CacheBehaviours :
           ProcessMessage(message, persona, session_id, llm)
    \/ \E seconds \in {TickSeconds - 1, TickSeconds} : Tick(seconds)

SpecRag == Init /\ [][NextRag]_vars

SpecChat == Init /\ [][NextChat]_vars

SpecSession == Init /\ [][NextSession]_vars

NextMemory ==
    \E session_id \in Sessions,
       message \in { m \in Messages : ~DetectJailbreakAttempt(m) /\ ~IsOffTopic(m) } :
        UpdateMemory(session_id, message, GetFallbackResponse)

SpecMemory == Init /\ [][NextMemory]_vars

SpecDocIntel == Init /\ [][NextDocIntel]_vars

SpecDocMgr == Init /\ [][NextDocMgr]_vars

NextRecommend ==
    \E dbo_output \in RecommendDbos, user_profile \in UserProfiles :
        Recommend(dbo_output, user_profile)

\* every scenario output, those whose benefit keys name one goal twice included
NextScore ==
    \E dbo_output \in DboOutputs, user_profile \in UserProfiles :
        Recommend(dbo_output, user_profile)

SpecScore == Init /\ [][NextScore]_vars

\* a profile of every ordinal relation to the catalog's required levels
BonusProfiles ==
    { p \in UserProfiles :
         /\ p.sustainability_proficiency \in {"beginner", "intermediate", "expert"}
         /\ p.technological_proficiency \in {"beginner", "advanced", "expert"}
         /\ p.regulatory_compliance_importance = "medium" }

NextBonus ==
    \E dbo_output \in DboOutputs, user_profile \in BonusProfiles :
        Recommend(dbo_output, user_profile)

SpecBonus == Init /\ [][NextBonus]_vars

\* profiles with the optional company_size and the communication_style
AssembleProfiles ==
    { [sustainability_proficiency |-> p.sustainability_proficiency,
       technological_proficiency |-> p.technological_proficiency,
       regulatory_compliance_importance |-> p.regulatory_compliance_importance,
       communication_style |-> style,
       company_size |-> company_size] :
         p \in { q \in UserProfiles :
                    /\ q.sustainability_proficiency \in {"beginner", "expert"}
                    /\ q.technological_proficiency \in {"intermediate", "advanced"}
                    /\ q.regulatory_compliance_importance \in {"low", "critical"} },
         style \in {"technical"},
         company_size \in {"None", "Small (10-50 employees)", "500+ employees"} }

NextAssemble ==
    \E dbo_output \in DboOutputs, user_profile \in AssembleProfiles :
        Recommend(dbo_output, user_profile)

SpecAssemble == Init /\ [][NextAssemble]_vars

NextRank ==
    \E matched_products \in MatchedInputsOver(CatalogOrder),
       dbo_output \in {d \in DboOutputs : d.payback \in {20, 45}},
       user_profile \in RankProfiles :
        RankAndDetail(matched_products, dbo_output, user_profile)

SpecRecommend == Init /\ [][NextRecommend]_vars

SpecRank == Init /\ [][NextRank]_vars

NextChunk ==
    \/ \E text \in ChunkTexts, setting \in ChunkSettings :
           ChunkTextCall(text, setting)
    \/ ChunkLoopIteration
    \/ ChunkTextReturn

SpecChunk == Init /\ [][NextChunk]_vars

----------------------------------------------------------------------------
(* Properties of the recommendation service *)

CatalogIndex(product_id) == IndexOf(product_id, CatalogOrder)

ProductOfName(product_name) ==
    CHOOSE product_id \in ProductIds :
        LoadXceleratorCatalog[product_id].name = product_name

RecommendedIds == { ProductOfName(last_recs[i].product_name) : i \in 1..Len(last_recs) }

\* Q is at least P in both proficiency dimensions
AtLeast(q, p) ==
    /\ LevelIndex(q.sustainability_proficiency) >= LevelIndex(p.sustainability_proficiency)
    /\ LevelIndex(q.technological_proficiency) >= LevelIndex(p.technological_proficiency)

\* C1: after any sequence of analyze_dbo_output_and_recommend calls the
\* product catalog equals, field by field (siemens_support lists included),
\* the catalog as loaded at construction.
C1_CatalogNeverMutated == xcelerator_catalog = LoadXceleratorCatalog

\* C2: a recommendation request returns the records a service that served no
\* other request would return for the same (scenario output, profile).
C2_NoInterference ==
    (last_op = "recommend" /\ last_status = "ok") =>
        last_recs = AnalyzeDboOutputAndRecommend(LoadXceleratorCatalog, last_dbo,
                                                 last_profile).recommendations

\* C3: every recommended product was returned by the eligibility filter for
\* that profile, and a beginner/beginner profile never receives a product
\* that requires (intermediate, intermediate).
C3_EligibilityIsHardGate ==
    last_op = "recommend" =>
        /\ RecommendedIds \subseteq SeqToSet(last_suitable)
        /\ RecommendedIds \subseteq
               SeqToSet(FilterProductsByProficiency(xcelerator_catalog, last_profile))
        /\ (last_profile.sustainability_proficiency = "beginner"
            /\ last_profile.technological_proficiency = "beginner") =>
              \A product_id \in RecommendedIds :
                  xcelerator_catalog[product_id].proficiency_requirements
                      # [sustainability |-> "intermediate", technological |-> "intermediate"]

\* a beginner/beginner request whose scenario matches the (intermediate,
\* intermediate) product Desigo CC better than anything that was returned
C3_Witness ==
    /\ last_op = "recommend"
    /\ last_profile.sustainability_proficiency = "beginner"
    /\ last_profile.technological_proficiency = "beginner"
    /\ Len(last_recs) > 0
    /\ "desigo_cc" \notin RecommendedIds
    /\ \A i \in 1..Len(last_matched) :
          RequirementScore("desigo_cc", ExtractRequirementsFromDbo(last_dbo))
              > last_matched[i].score

\* C4: every product eligible for a profile is eligible for every profile
\* that is at least as proficient in both dimensions.
C4_FilterMonotonic ==
    last_op = "recommend" =>
        \A q \in UserProfiles :
            AtLeast(q, last_profile) =>
                SeqToSet(last_suitable) \subseteq
                    SeqToSet(FilterProductsByProficiency(xcelerator_catalog, q))

\* C5: a product is returned by the filter iff (a) its complexity is in the
\* band of the user's technological proficiency or is "Low" and (b) it is in
\* the recommended set of the user's sustainability proficiency or is the
\* financing product.
C5_FilterCharacterisation ==
    last_op = "recommend" =>
        /\ \A product_id \in ProductIds :
              InSeq(product_id, last_suitable) <=>
                 /\ \/ LoadXceleratorCatalog[product_id].implementation_complexity
                          \in SeqToSet(complexity_filter[last_profile.technological_proficiency])
                    \/ LoadXceleratorCatalog[product_id].implementation_complexity = "Low"
                 /\ \/ product_id \in
                          SeqToSet(recommended_products[last_profile.sustainability_proficiency])
                    \/ product_id = "siemens_financial_services"
        /\ \A i, j \in 1..Len(last_suitable) : i # j => last_suitable[i] # last_suitable[j]

\* both exemptions at work: the financing product is eligible for a profile
\* whose sustainability set and complexity band do not contain it
C5_Witness ==
    /\ last_op = "recommend"
    /\ last_profile.sustainability_proficiency = "advanced"
    /\ last_profile.technological_proficiency = "expert"
    /\ InSeq("siemens_financial_services", last_suitable)
    /\ InSeq("simatic_pcs7", last_suitable)
    /\ ~InSeq("sigreen", last_suitable)

\* C6: the ranked list is in descending total score, products with equal
\* total score are in catalog insertion order, and the recommendations are
\* the first 5 (or all, if fewer) of that ranking.
C6_RankingOrderAndTop5 ==
    (last_op # "none" /\ last_status = "ok") =>
        /\ Len(last_scored) = Len(last_matched)
        /\ { last_scored[i].product_id : i \in 1..Len(last_scored) }
             = { last_matched[i].product_id : i \in 1..Len(last_matched) }
        /\ \A i, j \in 1..Len(last_scored) :
              i < j =>
                 \/ last_scored[i].final_score > last_scored[j].final_score
                 \/ /\ last_scored[i].final_score = last_scored[j].final_score
                    /\ CatalogIndex(last_scored[i].product_id)
                         < CatalogIndex(last_scored[j].product_id)
        /\ Len(last_recs) <= 5
        /\ Len(last_recs) = MinOf(5, Len(last_scored))
        /\ \A i \in 1..Len(last_recs) :
              last_recs[i].product_name
                 = LoadXceleratorCatalog[last_scored[i].product_id].name

\* more than 5 scored products, with a tie inside the returned five and a
\* tie across the cut
C6_Witness ==
    /\ last_op = "rank"
    /\ last_status = "ok"
    /\ Len(last_scored) > 5
    /\ Len(last_recs) = 5
    /\ last_scored[1].final_score = last_scored[2].final_score
    /\ last_scored[5].final_score = last_scored[6].final_score
    /\ last_scored[2].final_score > last_scored[5].final_score

----------------------------------------------------------------------------
(* Properties of the search services *)

EmbeddingSearchOps == {"rag", "doc", "manager"}

NonIncreasing(results) ==
    \A i \in 1..Len(results) - 1 : results[i].similarity >= results[i + 1].similarity

\* C7: when the embedding provider fails for the query, the semantic search
\* call ends in an error outcome; it never returns a normal result list,
\* neither an empty one nor one of index entries with score 0.
C7_EmbeddingFailureIsAnError ==
    (search.op \in EmbeddingSearchOps /\ ~search.provider_ok)
        => search.outcome = "error"

\* C9: for every index state, query and top_k >= 0 a semantic search returns
\* at most top_k results, in non-increasing order of score.
C9_AtMostTopKSortedDescending ==
    (search.op \in EmbeddingSearchOps /\ search.outcome = "ok")
        => /\ Len(search.results) <= search.top_k
           /\ NonIncreasing(search.results)

\* C10: a search on an empty index returns an empty result list and never
\* an error (scenario/product semantic search, document semantic search,
\* keyword scenario search).
C10_EmptyIndexGivesEmptyList ==
    (search.op # "none" /\ search.index_size = 0)
        => (search.outcome = "ok" /\ search.results = <<>>)

\* C8: if an embedding call fails while a chat request executes a SEARCH_DBO
\* or SEARCH_PRODUCTS action, the request is aborted: the response returned
\* holds no recommendation and no dbo suggestion derived from that search.
C8_FailedSearchFeedsNoResponse ==
    chat.failing \cap chat.origins = {}

\* the similarities of the query of a document search to the chunks the
\* search considers
SearchedSimilarities(op, query, authority_filter) ==
    IF op = "doc" THEN DocSimilarities(EmbedVector(query), embeddings_matrix)
    ELSE LET candidates == SelectSeq(manager_chunks,
                 LAMBDA c : authority_filter = "None" \/ c.authority = authority_filter)
         IN  [i \in 1..Len(candidates) |->
                 VectorCosine(EmbedVector(query), candidates[i].embedding)]

CountAtLeast(similarities, threshold) ==
    Cardinality({ i \in 1..Len(similarities) : similarities[i] >= threshold })

\* C11: document search applies the confidence threshold 0.70 inclusively: a
\* chunk is returned iff it is among the top_k and its similarity is at
\* least 0.70, so nothing below 0.70 is returned and the number of results
\* is the number of chunks at or above 0.70, capped at top_k.
C11_ThresholdInclusive ==
    [][ (/\ search' # search
         /\ search'.op \in {"doc", "manager"}
         /\ search'.provider_ok
         /\ search'.outcome = "ok")
        => /\ \A i \in 1..Len(search'.results) :
                  search'.results[i].similarity >= confidence_threshold
           /\ Len(search'.results) =
                  MinOf(search'.top_k,
                        CountAtLeast(SearchedSimilarities(search'.op, search'.query,
                                                          search'.authority_filter),
                                     confidence_threshold)) ]_vars

----------------------------------------------------------------------------
(* Properties of the chat agent *)

ChatStep == nchat' = nchat + 1

\* C12: a request whose (message, persona) has a stored response younger
\* than cache_ttl = 3600 s gets that response unchanged, with no embedding
\* and no model call and the entry left as it is; at an age of cache_ttl or
\* more it gets a freshly computed response, which replaces the entry.
C12_CacheWithinTtl ==
    [][ (ChatStep /\ chat'.path \notin {"jailbreak", "off_topic"})
        => LET cache_key == GenerateCacheKey(chat'.message, chat'.persona)
           IN  IF /\ cache_key \in DOMAIN response_cache
                  /\ now - response_cache[cache_key].timestamp < 3600
               THEN /\ chat'.response = response_cache[cache_key].response
                    /\ chat'.model_calls = 0
                    /\ chat'.embedding_calls = 0
                    /\ response_cache' = response_cache
               ELSE /\ chat'.model_calls > 0
                    /\ response_cache'[cache_key] =
                           [response |-> chat'.response, timestamp |-> now] ]_vars

\* a repeated request answered from the cache one second before the entry
\* expires
C12_Witness ==
    /\ chat.path = "cached"
    /\ now = 3599
    /\ response_cache[GenerateCacheKey(chat.message, chat.persona)].timestamp = 0

\* C13: a cache hit returns what a fresh computation of the same request
\* would have produced when the entry was stored: the entry served was
\* computed for a request with the same message (not only the same persona
\* and first 100 characters), and no entry holds a fallback response.
C13_CacheHitEqualsFreshComputation ==
    [][ ChatStep
        => /\ \A cache_key \in DOMAIN response_cache' :
                  response_cache'[cache_key].response # GetFallbackResponse
           /\ (/\ chat'.path = "cached"
               /\ chat.path \in {"structured", "fallback"}
               /\ GenerateCacheKey(chat'.message, chat'.persona)
                      = GenerateCacheKey(chat.message, chat.persona))
              => chat'.message = chat.message ]_vars

\* C14: each session's conversation history holds at most 10 entries, and an
\* update leaves the most recent min(n, 10) entries in arrival order: the new
\* entry comes last and, once 10 are held, the oldest one is evicted.
C14_HistoryKeepsLastTen ==
    [][ /\ \A s \in DOMAIN conversation_memory' : Len(conversation_memory'[s]) <= 10
        /\ (nupdate' # nupdate \/ conversation_memory' # conversation_memory)
           => \E s \in DOMAIN conversation_memory' :
                 LET old == Get(conversation_memory, s, <<>>)
                     new == conversation_memory'[s]
                     dropped == Len(old) + 1 - Len(new)
                 IN  /\ Len(new) = MinOf(Len(old) + 1, 10)
                     /\ \A i \in 1..Len(new) - 1 : new[i] = old[i + dropped]
                     /\ \A t \in DOMAIN conversation_memory' \ {s} :
                           /\ t \in DOMAIN conversation_memory
                           /\ conversation_memory'[t] = conversation_memory[t] ]_vars

\* session s1 alone received 11 entries: it holds 10 and the first was evicted
C14_Witness ==
    /\ nupdate = 11
    /\ DOMAIN conversation_memory = {"s1"}
    /\ Len(conversation_memory["s1"]) = 10
    /\ conversation_memory["s1"][1] # conversation_memory["s1"][10]

\* C15: processing a message for session s changes no other session's
\* conversation history, what it appends to the history of s is the entry of
\* this request, and the history passed to reasoning is that of session s
\* as earlier requests of s left it.
C15_SessionIsolation ==
    [][ ChatStep
        => LET s == chat'.session_id
               old == Get(conversation_memory, s, <<>>)
           IN  /\ DOMAIN conversation_memory \subseteq DOMAIN conversation_memory'
               /\ \A t \in DOMAIN conversation_memory' \ {s} :
                     /\ t \in DOMAIN conversation_memory
                     /\ conversation_memory'[t] = conversation_memory[t]
               /\ chat'.path \in {"structured", "fallback"}
                  => /\ chat'.history = old
                     /\ conversation_memory'[s][Len(conversation_memory'[s])].user
                            = chat'.message
               /\ chat'.path \notin {"structured", "fallback"}
                  => conversation_memory' = conversation_memory ]_vars

\* a request of session s2 served after session s1 has a history: it is
\* given the empty history of s2
C15_Witness ==
    /\ DOMAIN conversation_memory = {"s1", "s2"}
    /\ chat.session_id = "s2"
    /\ chat.path = "structured"
    /\ chat.history = <<>>
    /\ Len(conversation_memory["s1"]) = 1

\* C16: get_enhanced_scenario leaves the stored catalog unchanged: every
\* stored entry is the loaded one, with its implementation_steps and without
\* a persona_insights, persona_recommendations or confidence_score key.
C16_StoredCatalogUnchanged ==
    dbo_loaded =>
        /\ scenarios = LoadAndEnhanceScenarios(scenarios_file.exists,
                                               scenarios_file.records)
        /\ \A i \in 1..Len(scenarios) :
              DOMAIN scenarios[i] \cap {"persona_insights", "persona_recommendations",
                                        "confidence_score"} = {}

\* two enhanced views of stored scenarios have been served, the last one
\* with a persona that adds recommendations
C16_Witness ==
    /\ nlookup = 2
    /\ lookup.endpoint = "POST /scenario"
    /\ lookup.status = 200
    /\ lookup.persona = "zuri"
    /\ lookup.body.persona_insights.title = "Energy Optimization"
    /\ Len(scenarios) = 4

\* C17: a request for a scenario id that is not in the catalog is answered
\* with HTTP 404 at each of the three scenario endpoints.
C17_UnknownIdIsNotFound ==
    (lookup.endpoint # "none" /\ ~HasScenario(scenarios, lookup.scenario_id))
        => lookup.status = 404

\* C18: a loaded list of records with pairwise different titles yields one
\* catalog entry per record.
C18_OneEntryPerRecord ==
    (/\ dbo_loaded
     /\ scenarios_file.exists
     /\ \A i, j \in 1..Len(scenarios_file.records) :
           i # j => scenarios_file.records[i].scenario
                        # scenarios_file.records[j].scenario)
        => /\ Len(scenarios) = Len(scenarios_file.records)
           /\ \A i \in 1..Len(scenarios_file.records) :
                 \E j \in 1..Len(scenarios) :
                    /\ scenarios[j].title = scenarios_file.records[i].scenario
                    /\ scenarios[j].description = scenarios_file.records[i].description

\* the requirement categories of one kind that a product serves
ServedCategories(product_id, entries) ==
    { c \in SeqToSet(entries) : product_id \in product_capabilities(c) }

ProductsOf(entries) == { entries[i].product_id : i \in 1..Len(entries) }

\* C19: the total score of a scored non-financing product is 2.0 per
\* extracted primary-focus category it serves, 1.5 per extracted technical
\* capability and 1.0 per extracted sustainability goal, plus the
\* proficiency, compliance and timeline bonuses (scores in tenths).
C19_TotalScoreIsSumOfParts ==
    last_op = "recommend" =>
        LET requirements == ExtractRequirementsFromDbo(last_dbo)
        IN  \A i \in 1..Len(last_scored) :
               LET product_id == last_scored[i].product_id
                   baseScore ==
                       20 * Cardinality(ServedCategories(product_id,
                                            requirements.primary_focus))
                       + 15 * Cardinality(ServedCategories(product_id,
                                            requirements.technical_capabilities))
                       + 10 * Cardinality(ServedCategories(product_id,
                                            requirements.sustainability_goals))
               IN  product_id # "siemens_financial_services"
                   => last_scored[i].final_score
                        = baseScore
                          + CalculateProficiencyBonus(xcelerator_catalog, product_id,
                                                      last_profile)
                          + CalculateComplianceBonus(product_id, last_profile)
                          + CalculateTimelineBonus(xcelerator_catalog, product_id,
                                                   last_dbo)

\* C20: an eligible product that serves no extracted requirement category is
\* neither matched, scored nor recommended, and the financing product, when
\* eligible, is matched with base score 0.8 and scored.
C20_UnmatchedDroppedFinancingPinned ==
    last_op = "recommend" =>
        LET requirements == ExtractRequirementsFromDbo(last_dbo)
            serves(product_id) ==
                \/ ServedCategories(product_id, requirements.primary_focus) # {}
                \/ ServedCategories(product_id, requirements.technical_capabilities) # {}
                \/ ServedCategories(product_id, requirements.sustainability_goals) # {}
        IN  /\ \A product_id \in SeqToSet(last_suitable) \ {"siemens_financial_services"} :
                  ~serves(product_id)
                  => /\ product_id \notin ProductsOf(last_matched)
                     /\ product_id \notin ProductsOf(last_scored)
                     /\ product_id \notin RecommendedIds
            /\ "siemens_financial_services" \in SeqToSet(last_suitable)
                  => /\ \E i \in 1..Len(last_matched) :
                           /\ last_matched[i].product_id = "siemens_financial_services"
                           /\ last_matched[i].score = 8
                     /\ "siemens_financial_services" \in ProductsOf(last_scored)

\* a request whose eligible products include one that serves nothing, one
\* that serves a requirement, and the financing product, which itself serves
\* none of the extracted categories
C20_Witness ==
    /\ last_op = "recommend"
    /\ "siemens_financial_services" \in ProductsOf(last_scored)
    /\ Len(last_scored) >= 2
    /\ \E product_id \in SeqToSet(last_suitable) \ {"siemens_financial_services"} :
          product_id \notin ProductsOf(last_matched)
    /\ RequirementScore("siemens_financial_services",
                        ExtractRequirementsFromDbo(last_dbo)) = 0

----------------------------------------------------------------------------
(* Properties of requirement extraction and the score bonuses *)

NoRepeats(entries) ==
    \A i, j \in 1..Len(entries) : i # j => entries[i] # entries[j]

\* C21: the extracted requirements hold each focus area, capability and goal
\* at most once, and a served goal adds 1.0 to a product's base score once.
C21_RequirementsHeldOnce ==
    last_op = "recommend" =>
        LET requirements == ExtractRequirementsFromDbo(last_dbo)
        IN  /\ NoRepeats(requirements.primary_focus)
            /\ NoRepeats(requirements.technical_capabilities)
            /\ NoRepeats(requirements.sustainability_goals)
            /\ \A i \in 1..Len(last_matched) :
                  LET product_id == last_matched[i].product_id
                  IN  product_id # "siemens_financial_services"
                      => last_matched[i].score
                           - MatchLoop(product_id, requirements.primary_focus, 20)
                           - MatchLoop(product_id, requirements.technical_capabilities, 15)
                         = 10 * Cardinality(ServedCategories(product_id,
                                               requirements.sustainability_goals))

\* the trigger substrings of every requirement category
CategoryTriggers ==
    { [kind |-> "primary_focus", category |-> "energy_management", triggers |-> {"energy"}],
      [kind |-> "primary_focus", category |-> "resource_management", triggers |-> {"water"}],
      [kind |-> "primary_focus", category |-> "building_optimization", triggers |-> {"building"}],
      [kind |-> "primary_focus", category |-> "waste_management", triggers |-> {"waste"}],
      [kind |-> "primary_focus", category |-> "supply_chain",
       triggers |-> {"supply", "logistics"}],
      [kind |-> "primary_focus", category |-> "industrial_processes",
       triggers |-> {"manufacturing"}],
      [kind |-> "technical_capabilities", category |-> "iot_monitoring",
       triggers |-> {"iot", "sensors", "monitoring"}],
      [kind |-> "technical_capabilities", category |-> "data_analytics",
       triggers |-> {"analytics", "data", "intelligence"}],
      [kind |-> "technical_capabilities", category |-> "automation_control",
       triggers |-> {"automation", "control", "smart"}],
      [kind |-> "technical_capabilities", category |-> "sustainability_reporting",
       triggers |-> {"tracking", "reporting", "carbon"}],
      [kind |-> "sustainability_goals", category |-> "energy_efficiency",
       triggers |-> {"energy"}],
      [kind |-> "sustainability_goals", category |-> "carbon_reduction",
       triggers |-> {"carbon", "emission"}],
      [kind |-> "sustainability_goals", category |-> "water_conservation",
       triggers |-> {"water"}],
      [kind |-> "sustainability_goals", category |-> "waste_reduction",
       triggers |-> {"waste"}] }

\* C22: a category is extracted if and only if one of its triggers occurs in
\* the concatenation of title, description, actions and benefit metric names.
C22_CategoryIffTriggerAnywhere ==
    last_op = "recommend" =>
        LET requirements == ExtractRequirementsFromDbo(last_dbo)
            concatenated == last_dbo.scenario_text \o last_dbo.recommended_actions
                            \o last_dbo.benefit_keys
        IN  \A c \in CategoryTriggers :
               InSeq(c.category, requirements[c.kind])
               <=> \E trigger \in c.triggers : Occurs(trigger, concatenated)

\* C25: the extracted urgency is high for a payback of at most 2 years,
\* medium up to 4 years and low above, and is one of the three for every
\* scenario output (payback in tenths of a year).
C25_UrgencyAlwaysProduced ==
    last_op = "recommend" =>
        LET urgency == ExtractRequirementsFromDbo(last_dbo).urgency
        IN  /\ urgency \in {"high", "medium", "low"}
            /\ HasPayback(last_dbo)
               => urgency = IF last_dbo.payback <= 20 THEN "high"
                            ELSE IF last_dbo.payback <= 40 THEN "medium"
                            ELSE "low"

\* C23: the proficiency bonus of a scored product is +0.5 for each dimension
\* in which the user's level is ordinally at least the required level and
\* -0.2 for each other dimension: one of -0.4, 0.3, 1.0.
C23_ProficiencyBonusOrdinal ==
    last_op # "none" =>
        \A i \in 1..Len(last_scored) :
           LET required == LoadXceleratorCatalog[last_scored[i].product_id]
                               .proficiency_requirements
               met == { dim \in {"sustainability", "technological"} :
                          IndexOf(IF dim = "sustainability"
                                  THEN last_profile.sustainability_proficiency
                                  ELSE last_profile.technological_proficiency,
                                  proficiency_levels)
                          >= IndexOf(required[dim], proficiency_levels) }
               bonus == last_scored[i].score_breakdown.proficiency_bonus
           IN  /\ bonus = 5 * Cardinality(met) - 2 * (2 - Cardinality(met))
               /\ bonus \in {-4, 3, 10}

\* one ranking holds a product whose levels the user misses in both
\* dimensions, one the user misses in one, and one the user meets in both
C23_Witness ==
    /\ last_op = "rank"
    /\ \E i, j, k \in 1..Len(last_scored) :
          /\ last_scored[i].score_breakdown.proficiency_bonus = -4
          /\ last_scored[j].score_breakdown.proficiency_bonus = 3
          /\ last_scored[k].score_breakdown.proficiency_bonus = 10

\* the catalog products whose typical timeline resolves to more than 6 months
LongTimelineProducts ==
    { product_id \in ProductIds :
         ProductMonths(LoadXceleratorCatalog[product_id].typical_timeline) > 6 }

\* C24: the timeline bonus of a scored product is +0.5 exactly when payback
\* <= 2 and its timeline is at most 6 months, +0.3 exactly when payback > 3
\* and its timeline is longer than 6 months, 0 otherwise; +0.5 is given only
\* with extracted urgency high.
C24_TimelineBonusCases ==
    last_op = "recommend" =>
        \A i \in 1..Len(last_scored) :
           LET product_id == last_scored[i].product_id
               bonus == last_scored[i].score_breakdown.timeline_bonus
               short_payback == HasPayback(last_dbo) /\ last_dbo.payback <= 20
               long_payback == HasPayback(last_dbo) /\ last_dbo.payback > 30
           IN  /\ bonus = 5 <=> (short_payback /\ product_id \notin LongTimelineProducts)
               /\ bonus = 3 <=> (long_payback /\ product_id \in LongTimelineProducts)
               /\ bonus \in {0, 3, 5}
               /\ bonus = 5 => ExtractRequirementsFromDbo(last_dbo).urgency = "high"

\* a payback of exactly 3 years with the financing product (6 months) and a
\* long-timeline product scored: neither gets a bonus
C24_Witness ==
    /\ last_op = "recommend"
    /\ last_dbo.payback = 30
    /\ \E i, j \in 1..Len(last_scored) :
          /\ last_scored[i].product_id = "siemens_financial_services"
          /\ last_scored[j].product_id \in LongTimelineProducts
          /\ last_scored[j].score_breakdown.timeline_bonus = 0

----------------------------------------------------------------------------
(* Tie order of the semantic searches *)

\* C26: results of a semantic search that have equal similarity to the query
\* are returned in index insertion order, the earlier-inserted record first.
C26_TiesInInsertionOrder ==
    (search.op \in {"rag", "doc"} /\ search.outcome = "ok") =>
        \* the insertion position of a result: the chunk index for the document
        \* search, the position of the id in its embeddings dict for the RAG search
        LET InsertionPosition(result) ==
                IF search.op = "doc" THEN result.id
                ELSE LET indexed == dbo_embeddings \o product_embeddings
                     IN  CHOOSE i \in 1..Len(indexed) : indexed[i].id = result.id
        IN
        \A i, j \in 1..Len(search.results) :
           (i < j /\ search.results[i].similarity = search.results[j].similarity)
           => InsertionPosition(search.results[i]) < InsertionPosition(search.results[j])

----------------------------------------------------------------------------
(* Assembling the recommendations *)

\* C27: assembling the recommendations never fails: every ranked product of
\* the first five gets a record whose relevance_score is min(score/10, 1.0)
\* within [0, 1] (hundredths), and whose investment, ROI-timeline, financing
\* and guidance entries are values of the tables or their defaults.
C27_AssemblyNeverFails ==
    last_op = "recommend" =>
        /\ last_status = "ok"
        /\ Len(last_recs) = MinOf(5, Len(last_scored))
        /\ \A i \in 1..Len(last_recs) :
              LET score == last_scored[i].final_score
              IN  /\ last_recs[i].relevance_score
                        = IF score >= 100 THEN 100 ELSE score
                  /\ last_recs[i].relevance_score \in 0..100
                  /\ last_recs[i].estimated_investment
                        \in {"$15K-50K", "$50K-150K", "$150K-500K", "$25K-75K",
                             "$75K-200K", "$200K-600K", "$5K-15K", "$15K-40K",
                             "$40K-100K", "$30K-80K", "$80K-250K", "$250K-750K",
                             "$10K-30K", "$30K-80K", "$80K-200K", "$100K-300K",
                             "$300K-800K", "$800K-2M", "Financing available",
                             "Contact for pricing"}
                  /\ last_recs[i].expected_roi_timeline # ""
                  /\ Len(last_recs[i].financing_options) \in {3, 7}
                  /\ "KeyError" \notin
                        {last_recs[i].proficiency_match.sustainability_approach,
                         last_recs[i].proficiency_match.technological_approach}

\* a product whose score of 10.0 is capped at relevance 1.0, for a small
\* company
C27_Witness ==
    /\ last_op = "recommend"
    /\ last_status = "ok"
    /\ Len(last_recs) >= 3
    /\ last_scored[1].final_score >= 100
    /\ last_recs[1].relevance_score = 100
    /\ last_recs[1].estimated_investment = "$10K-30K"

----------------------------------------------------------------------------
(* Conversation history after a request *)

\* C28: a process_message call that returns a normal answer for session s,
\* from the pipeline or from the response cache, leaves (message, answer) as
\* the newest entry of the history of s.
C28_AnswerIsNewestHistoryEntry ==
    [][ (ChatStep /\ chat'.path \in {"structured", "fallback", "cached"})
        => LET s == chat'.session_id
               history == Get(conversation_memory', s, <<>>)
           IN  /\ history # <<>>
               /\ history[Len(history)].user = chat'.message
               /\ history[Len(history)].assistant = chat'.response.response ]_vars

\* C29: _chunk_text terminates whenever 0 <= chunk_overlap < chunk_size,
\* because every pass through the loop moves the start offset strictly
\* forward, also when the sentence break found lies fewer than chunk_overlap
\* characters after the window start.
C29_StartStrictlyIncreases ==
    [][ ChunkLoopIteration => chunker'.start > chunker.start ]_vars

\* C30: after a document that is already in the index is added again, the
\* index holds exactly the chunk ids of the version just processed (none of
\* the earlier version's when the new one yields fewer chunks), and the
\* document's recorded chunk_count is the number of its indexed chunks.
C30_IndexHoldsLatestVersion ==
    [][ \A file \in DocumentFiles :
        \A failing_positions \in SUBSET (1..Len(file.contents)) :
            ( /\ AddDocument(file, failing_positions)
              /\ \E d \in 1..Len(manager_documents) :
                     manager_documents[d].id = file.stem )
            => LET chunks == ProcessDocument(file, failing_positions)
                   indexed == { manager_chunks'[i].id :
                                  i \in { j \in 1..Len(manager_chunks') :
                                            manager_chunks'[j].id[1] = file.stem } }
               IN  /\ indexed = { chunks[c].id : c \in 1..Len(chunks) }
                   /\ \A d \in 1..Len(manager_documents') :
                          manager_documents'[d].id = file.stem
                          => manager_documents'[d].chunk_count = Cardinality(indexed) ]_vars

====
